---------------------------- MODULE Spec2Model ----------------------------
(***************************************************************************)
(* A model of jqdata: the typed client of the JQData HTTP endpoint.        *)
(*                                                                         *)
(*   - the body consumers (csv, line, single, json) of                     *)
(*     jqdata-blocking/model.rs and jqdata-model/models.rs, as operators   *)
(*     over response bodies;                                               *)
(*   - the serde names of SecurityKind (rename_all and rename);            *)
(*   - the two envelope builders (the derived Request::request and the     *)
(*     flattening Request<P> wrapper);                                     *)
(*   - the token exchange (get_token, refresh_token) and the blocking      *)
(*     client of jqdata-blocking/cli.rs;                                   *)
(*   - the async client of src/lib.rs with its Arc<Mutex<Arc<..>>> token.  *)
(*                                                                         *)
(* Text is a sequence of one-character strings; "LF" and "CR" stand for    *)
(* the line feed and the carriage return.  Response bodies are valid       *)
(* UTF-8 text; the csv consumer is given bodies without quotes.  A         *)
(* message produced by a library (a                                        *)
(* parser, the csv reader) is a one-element sequence holding the message.  *)
(***************************************************************************)
EXTENDS Integers, Sequences, FiniteSets, TLC

VARIABLES
    response,   \* SpecDecode: the response body handed to a consumer
    format,     \* SpecDecode: the consumer that ran ("none" before)
    output,     \* SpecDecode: what the consumer returned
    command,    \* SpecEnvelope: the command value
    token,      \* SpecEnvelope: the token handed to the builder
    builder,    \* SpecEnvelope: the builder that ran ("none" before)
    envelope,   \* SpecEnvelope: the request body it returned
    ctor,       \* Spec: the with_credential call (its locals and its result)
    inner,      \* Spec: JqdataClient::inner, <<>> while no client exists
    mutex,      \* Spec: the caller holding the lock of inner, 0 when free
    calls,      \* Spec: the execute call of each caller (its locals)
    exchange,   \* SpecExchange: one call of get_token or of refresh_token
    bcli,       \* SpecBlocking: the blocking JqdataClient, <<>> while none exists
    bcall,      \* SpecBlocking: the call in progress (its locals) and the last one
    wire,       \* SpecBlocking: the request bodies posted so far, in order
    kind        \* SpecKind: a SecurityKind serialized and deserialized

decodeVars == <<response, format, output>>
envelopeVars == <<command, token, builder, envelope>>
clientVars == <<ctor, inner, mutex, calls>>
exchangeVars == <<exchange>>
blockingVars == <<bcli, bcall, wire>>
kindVars == <<kind>>
vars == <<response, format, output, command, token, builder, envelope,
          ctor, inner, mutex, calls, exchange, bcli, bcall, wire, kind>>

----------------------------------------------------------------------------
(* Bounds of the model *)

\* rows after the header of a tabular response
MaxRows == 2
\* tasks that hold the async client or a clone of it
MaxCallers == 2
\* execute calls a task makes one after the other
MaxExecutes == 2
\* pieces of text concatenated into a free-form response body
MaxChunks == 3

----------------------------------------------------------------------------
(* Text *)

LF == "LF"
CR == "CR"

\* the literal "error" of starts_with("error")
Sentinel == <<"e", "r", "r", "o", "r">>

\* str::starts_with
StartsWith(s, p) == Len(s) >= Len(p) /\ SubSeq(s, 1, Len(p)) = p

\* index of the first element of s that is in the set cs, 0 when there is none
FirstIn(s, cs) ==
    IF \E i \in 1..Len(s) : s[i] \in cs
    THEN CHOOSE i \in 1..Len(s) : s[i] \in cs /\ \A j \in 1..(i - 1) : s[j] \notin cs
    ELSE 0

RECURSIVE SplitOn(_, _)
\* s cut at every element of cs (the pieces between them, empty ones included)
SplitOn(s, cs) ==
    LET i == FirstIn(s, cs)
    IN  IF i = 0 THEN <<s>>
        ELSE <<SubSeq(s, 1, i - 1)>> \o SplitOn(SubSeq(s, i + 1, Len(s)), cs)

RECURSIVE Concat(_)
Concat(ss) == IF ss = <<>> THEN <<>> ELSE Head(ss) \o Concat(Tail(ss))

RECURSIVE Join(_, _)
\* the elements of ss with sep between them
Join(ss, sep) ==
    IF ss = <<>> THEN <<>>
    ELSE IF Len(ss) = 1 THEN Head(ss)
    ELSE Head(ss) \o sep \o Join(Tail(ss), sep)

\* the sequences over S of length at most n
SeqUpTo(S, n) == UNION {[1..k -> S] : k \in 0..n}

----------------------------------------------------------------------------
(* Results: Result<T, Error> *)

Ok(v) == [ok |-> TRUE, kind |-> "Ok", msg |-> <<>>, val |-> v]
Err(k, m) == [ok |-> FALSE, kind |-> k, msg |-> m, val |-> <<>>]
NoOutput == [ok |-> FALSE, kind |-> "None", msg |-> <<>>, val |-> <<>>]


----------------------------------------------------------------------------
(* The csv reader (csv::ReaderBuilder::new().from_reader): records end at  *)
(* LF, CR or CRLF, empty lines are skipped, fields are cut at commas, and  *)
(* a record whose field count differs from the header's is an error.       *)

NonEmpty(l) == l # <<>>

\* the records of a body, the header record first
CsvRecords(body) ==
    LET lines == SelectSeq(SplitOn(body, {LF, CR}), NonEmpty)
    IN  [i \in 1..Len(lines) |-> SplitOn(lines[i], {","})]

----------------------------------------------------------------------------
(* SecurityKind and Security, the row type of get_all_securities *)

F_code == <<"c", "o", "d", "e">>
F_display_name == <<"d", "i", "s", "p", "l", "a", "y", "_", "n", "a", "m", "e">>
F_name == <<"n", "a", "m", "e">>
F_start_date == <<"s", "t", "a", "r", "t", "_", "d", "a", "t", "e">>
F_end_date == <<"e", "n", "d", "_", "d", "a", "t", "e">>
F_type == <<"t", "y", "p", "e">>
F_parent == <<"p", "a", "r", "e", "n", "t">>

\* the ASCII letters, for char::is_uppercase and to_ascii_lowercase
UpperCase ==
    <<"A", "B", "C", "D", "E", "F", "G", "H", "I", "J", "K", "L", "M",
      "N", "O", "P", "Q", "R", "S", "T", "U", "V", "W", "X", "Y", "Z">>

LowerCase ==
    <<"a", "b", "c", "d", "e", "f", "g", "h", "i", "j", "k", "l", "m",
      "n", "o", "p", "q", "r", "s", "t", "u", "v", "w", "x", "y", "z">>

is_uppercase(ch) == \E i \in 1..Len(UpperCase) : UpperCase[i] = ch

to_ascii_lowercase(ch) ==
    IF is_uppercase(ch)
    THEN LowerCase[CHOOSE i \in 1..Len(UpperCase) : UpperCase[i] = ch]
    ELSE ch

\* rename_all = "snake_case" applied to a variant: an underscore before
\* every uppercase character but the first, every character in lowercase
RECURSIVE snake_case(_)
snake_case(ident) ==
    IF ident = <<>> THEN <<>>
    ELSE LET i == Len(ident)
             ch == ident[i]
         IN snake_case(SubSeq(ident, 1, i - 1))
                \o (IF i > 1 /\ is_uppercase(ch) THEN <<"_">> ELSE <<>>)
                \o <<to_ascii_lowercase(ch)>>

\* the variants of enum SecurityKind as declared: the identifier and the
\* name of a serde(rename) attribute, <<>> without one
SecurityKindDecl ==
    << [name |-> "Stock", ident |-> <<"S", "t", "o", "c", "k">>,
        rename |-> <<>>],
       [name |-> "Fund", ident |-> <<"F", "u", "n", "d">>,
        rename |-> <<>>],
       [name |-> "Index", ident |-> <<"I", "n", "d", "e", "x">>,
        rename |-> <<>>],
       [name |-> "Futures", ident |-> <<"F", "u", "t", "u", "r", "e", "s">>,
        rename |-> <<>>],
       [name |-> "ETF", ident |-> <<"E", "T", "F">>,
        rename |-> <<<<"e", "t", "f">>>>],
       [name |-> "LOF", ident |-> <<"L", "O", "F">>,
        rename |-> <<<<"l", "o", "f">>>>],
       [name |-> "FJA", ident |-> <<"F", "J", "A">>,
        rename |-> <<<<"f", "j", "a">>>>],
       [name |-> "FJB", ident |-> <<"F", "J", "B">>,
        rename |-> <<<<"f", "j", "b">>>>],
       [name |-> "QDIIFund", ident |-> <<"Q", "D", "I", "I", "F", "u", "n", "d">>,
        rename |-> <<<<"Q", "D", "I", "I", "_", "f", "u", "n", "d">>>>],
       [name |-> "OpenFund", ident |-> <<"O", "p", "e", "n", "F", "u", "n", "d">>,
        rename |-> <<>>],
       [name |-> "BondFund", ident |-> <<"B", "o", "n", "d", "F", "u", "n", "d">>,
        rename |-> <<>>],
       [name |-> "StockFund", ident |-> <<"S", "t", "o", "c", "k", "F", "u", "n", "d">>,
        rename |-> <<>>],
       [name |-> "MoneyMarketFund", ident |-> <<"M", "o", "n", "e", "y", "M", "a", "r", "k", "e", "t", "F", "u", "n", "d">>,
        rename |-> <<>>],
       [name |-> "MixtureFund", ident |-> <<"M", "i", "x", "t", "u", "r", "e", "F", "u", "n", "d">>,
        rename |-> <<>>],
       [name |-> "Options", ident |-> <<"O", "p", "t", "i", "o", "n", "s">>,
        rename |-> <<>>] >>

\* the name serde gives a variant: that of its rename attribute, else the
\* container's rename_all rule applied to the identifier
SerdeName_rename_all(decl) == snake_case(decl.ident)

SerdeName(decl) ==
    IF decl.rename # <<>> THEN decl.rename[1] ELSE snake_case(decl.ident)

\* the variants with their serde names, in declaration order
SecurityKind ==
    [i \in 1..Len(SecurityKindDecl) |->
        <<SecurityKindDecl[i].name, SerdeName(SecurityKindDecl[i])>>]

\* Deserialize for SecurityKind: the variant whose serde name is the text
DeserializeSecurityKind(text) ==
    IF \E i \in 1..Len(SecurityKind) : SecurityKind[i][2] = text
    THEN Ok(SecurityKind[CHOOSE i \in 1..Len(SecurityKind) : SecurityKind[i][2] = text][1])
    ELSE Err("Csv", <<"unknown variant">>)

\* the columns of the header named nm
Positions(header, nm) == {i \in 1..Len(header) : header[i] = nm}

SecurityRequired == {F_code, F_display_name, F_name, F_start_date, F_end_date, F_type}

\* one record read by reader.deserialize() into a Security, by header name:
\* columns the struct does not name are ignored, parent is optional and an
\* empty parent cell is None (a sequence of length 0, Some(p) being <<p>>)
DeserializeSecurity(header, record) ==
    LET at(nm) == record[CHOOSE i \in Positions(header, nm) : TRUE]
    IN  IF Len(record) # Len(header) THEN Err("Csv", <<"UnequalLengths">>)
        ELSE IF \E nm \in SecurityRequired \cup {F_parent} :
                    Cardinality(Positions(header, nm)) > 1
        THEN Err("Csv", <<"duplicate field">>)
        ELSE IF \E nm \in SecurityRequired : Positions(header, nm) = {}
        THEN Err("Csv", <<"missing field">>)
        ELSE IF ~DeserializeSecurityKind(at(F_type)).ok
        THEN DeserializeSecurityKind(at(F_type))
        ELSE Ok([code |-> at(F_code),
                 display_name |-> at(F_display_name),
                 name |-> at(F_name),
                 start_date |-> at(F_start_date),
                 end_date |-> at(F_end_date),
                 kind |-> DeserializeSecurityKind(at(F_type)).val,
                 parent |-> IF Positions(header, F_parent) = {} \/ at(F_parent) = <<>>
                            THEN <<>> ELSE <<at(F_parent)>>])

----------------------------------------------------------------------------
(* The body consumers *)

RECURSIVE DeserializeRows_prepend(_, _, _, _)
\* DeserializeRows putting each row in front of the ones before it
DeserializeRows_prepend(header, rows, i, rs) ==
    IF i > Len(rows) THEN Ok(rs) @@ [attempted |-> Len(rows)]
    ELSE LET r == DeserializeSecurity(header, rows[i])
         IN  IF ~r.ok THEN Err(r.kind, r.msg) @@ [attempted |-> i]
             ELSE DeserializeRows_prepend(header, rows, i + 1, <<r.val>> \o rs)

RECURSIVE DeserializeRows_partial(_, _, _, _)
\* DeserializeRows returning the rows read before the one that failed
DeserializeRows_partial(header, rows, i, rs) ==
    IF i > Len(rows) THEN Ok(rs) @@ [attempted |-> Len(rows)]
    ELSE LET r == DeserializeSecurity(header, rows[i])
         IN  IF ~r.ok THEN Ok(rs) @@ [attempted |-> i]
             ELSE DeserializeRows_partial(header, rows, i + 1, Append(rs, r.val))

RECURSIVE DeserializeRows(_, _, _, _)
\* for r in reader.deserialize() { let s = r?; rs.push(s); } Ok(rs)
\* attempted counts the iterations of the loop that ran
DeserializeRows(header, rows, i, rs) ==
    IF i > Len(rows) THEN Ok(rs) @@ [attempted |-> Len(rows)]
    ELSE LET r == DeserializeSecurity(header, rows[i])
         IN  IF ~r.ok THEN Err(r.kind, r.msg) @@ [attempted |-> i]
             ELSE DeserializeRows(header, rows, i + 1, Append(rs, r.val))

EmptyBodyMessage ==
    <<"e", "m", "p", "t", "y", " ", "r", "e", "s", "p", "o", "n", "s", "e", " ",
      "b", "o", "d", "y", " ", "r", "e", "t", "u", "r", "n", "e", "d">>

\* consume_csv reading the rows before it looks at the header's first cell
consume_csv_rows_first(body) ==
    LET records == CsvRecords(body)
        header_cols == IF records = <<>> THEN <<>> ELSE Head(records)
        rs == DeserializeRows(header_cols, Tail(records), 1, <<>>)
    IN  IF header_cols = <<>>
        THEN Err("Server", EmptyBodyMessage) @@ [attempted |-> 0]
        ELSE IF ~rs.ok THEN rs
        ELSE IF StartsWith(Head(header_cols), Sentinel)
        THEN Err("Server", Head(header_cols)) @@ [attempted |-> rs.attempted]
        ELSE rs

\* consume_csv taking a body without header for a table without rows
consume_csv_empty_ok(body) ==
    LET records == CsvRecords(body)
        header_cols == IF records = <<>> THEN <<>> ELSE Head(records)
    IN  IF header_cols = <<>> THEN Ok(<<>>) @@ [attempted |-> 0]
        ELSE LET first_col == Head(header_cols)
             IN  IF StartsWith(first_col, Sentinel)
                 THEN Err("Server", first_col) @@ [attempted |-> 0]
                 ELSE DeserializeRows(header_cols, Tail(records), 1, <<>>)

\* consume_csv / CsvListBodyConsumer::consume with Output = Security
consume_csv(body) ==
    LET records == CsvRecords(body)
        header_cols == IF records = <<>> THEN <<>> ELSE Head(records)
    IN  IF header_cols = <<>>
        THEN Err("Server", EmptyBodyMessage) @@ [attempted |-> 0]
        ELSE LET first_col == Head(header_cols)
             IN  IF StartsWith(first_col, Sentinel)
                 THEN Err("Server", first_col) @@ [attempted |-> 0]
                 ELSE DeserializeRows(header_cols, Tail(records), 1, <<>>)

\* what BufRead::lines() does to one line: the LF is gone, and a CR before it
StripCR(line) ==
    IF line # <<>> /\ line[Len(line)] = CR THEN SubSeq(line, 1, Len(line) - 1) ELSE line

RECURSIVE Lines_skip_empty(_)
\* Lines leaving out the empty lines
Lines_skip_empty(s) ==
    LET i == FirstIn(s, {LF})
    IN  IF s = <<>> THEN <<>>
        ELSE IF i = 0 THEN <<s>>
        ELSE IF StripCR(SubSeq(s, 1, i - 1)) = <<>>
        THEN Lines_skip_empty(SubSeq(s, i + 1, Len(s)))
        ELSE <<StripCR(SubSeq(s, 1, i - 1))>> \o Lines_skip_empty(SubSeq(s, i + 1, Len(s)))

RECURSIVE Lines(_)
\* BufRead::lines(): a line ends at LF; the text after the last LF is a line
\* when it is not empty, and keeps a CR it ends with
Lines(s) ==
    LET i == FirstIn(s, {LF})
    IN  IF s = <<>> THEN <<>>
        ELSE IF i = 0 THEN <<s>>
        ELSE <<StripCR(SubSeq(s, 1, i - 1))>> \o Lines(SubSeq(s, i + 1, Len(s)))

\* consume_line applying the sentinel check the csv consumer applies
consume_line_sentinel(body) ==
    IF StartsWith(body, Sentinel) THEN Err("Server", body) ELSE Ok(Lines(body))

\* consume_line / LineBodyConsumer::consume
consume_line(body) == Ok(Lines(body))

Digits == <<"0", "1", "2", "3", "4", "5", "6", "7", "8", "9">>
IsDigit(c) == \E d \in 1..10 : Digits[d] = c
DigitVal(c) == (CHOOSE d \in 1..10 : Digits[d] = c) - 1

I32Max == 2147483647
I32Min == -I32Max - 1

RECURSIVE ParseDigits(_, _, _, _)
\* the digit loop of i32::from_str: left to right, the first bad digit or the
\* first overflow (checked_mul, then checked_add or checked_sub) ends it
ParseDigits(s, i, acc, neg) ==
    IF i > Len(s) THEN Ok(acc)
    ELSE IF ~IsDigit(s[i]) THEN Err("ParseInt", <<"invalid digit found in string">>)
    ELSE IF ~neg /\ acc > (I32Max - DigitVal(s[i])) \div 10
    THEN Err("ParseInt", <<"number too large to fit in target type">>)
    ELSE IF neg /\ acc < (I32Min + DigitVal(s[i]) + 9) \div 10
    THEN Err("ParseInt", <<"number too small to fit in target type">>)
    ELSE ParseDigits(s, i + 1,
                     IF neg THEN acc * 10 - DigitVal(s[i]) ELSE acc * 10 + DigitVal(s[i]),
                     neg)

\* str::parse::<i32>
ParseI32(s) ==
    IF s = <<>> THEN Err("ParseInt", <<"cannot parse integer from empty string">>)
    ELSE IF s \in {<<"+">>, <<"-">>}
    THEN Err("ParseInt", <<"invalid digit found in string">>)
    ELSE IF s[1] = "-" THEN ParseDigits(s, 2, 0, TRUE)
    ELSE IF s[1] = "+" THEN ParseDigits(s, 2, 0, FALSE)
    ELSE ParseDigits(s, 1, 0, FALSE)

\* impl From<std::num::ParseIntError> for Error
FromParseIntError(err) == Err("Server", err.msg)

\* s without the whitespace at its ends
Trim(s) ==
    LET inside == {i \in 1..Len(s) : s[i] \notin {" ", LF, CR}}
    IN  IF inside = {} THEN <<>>
        ELSE SubSeq(s, CHOOSE i \in inside : \A j \in inside : i <= j,
                       CHOOSE i \in inside : \A j \in inside : i >= j)

\* consume_single parsing the trimmed text
consume_single_trim(body) ==
    LET result == ParseI32(Trim(body))
    IN  IF result.ok THEN Ok(result.val) ELSE FromParseIntError(result)

\* consume_single with T = i32
consume_single(body) ==
    LET result == ParseI32(body)
    IN  IF result.ok THEN Ok(result.val) ELSE FromParseIntError(result)

----------------------------------------------------------------------------
(* The JSON consumer: serde_json::from_reader into a FundInfo.  A JSON      *)
(* value is [t, v]: t its kind and v a sequence (the characters of a       *)
(* string or of a number, the elements of an array, the members            *)
(* <<key, value>> of an object; empty for a literal).  Bodies hold no      *)
(* backslash and no tab.                                                   *)

DQ == "\""

F_fund_name == <<"f", "u", "n", "d", "_", "n", "a", "m", "e">>
F_fund_type == <<"f", "u", "n", "d", "_", "t", "y", "p", "e">>
F_fund_establishment_day ==
    <<"f", "u", "n", "d", "_", "e", "s", "t", "a", "b", "l", "i", "s", "h", "m", "e", "n", "t",
      "_", "d", "a", "y">>
F_fund_manager == <<"f", "u", "n", "d", "_", "m", "a", "n", "a", "g", "e", "r">>
F_fund_management_fee ==
    <<"f", "u", "n", "d", "_", "m", "a", "n", "a", "g", "e", "m", "e", "n", "t", "_", "f", "e",
      "e">>
F_fund_custodian_fee ==
    <<"f", "u", "n", "d", "_", "c", "u", "s", "t", "o", "d", "i", "a", "n", "_", "f", "e", "e">>
F_fund_status == <<"f", "u", "n", "d", "_", "s", "t", "a", "t", "u", "s">>
F_fund_size == <<"f", "u", "n", "d", "_", "s", "i", "z", "e">>
F_fund_share == <<"f", "u", "n", "d", "_", "s", "h", "a", "r", "e">>
F_fund_asset_allocation_proportion ==
    <<"f", "u", "n", "d", "_", "a", "s", "s", "e", "t", "_", "a", "l", "l", "o", "c", "a", "t",
      "i", "o", "n", "_", "p", "r", "o", "p", "o", "r", "t", "i", "o", "n">>
F_heavy_hold_stocks ==
    <<"h", "e", "a", "v", "y", "_", "h", "o", "l", "d", "_", "s", "t", "o", "c", "k", "s">>
F_heavy_hold_stocks_proportion ==
    <<"h", "e", "a", "v", "y", "_", "h", "o", "l", "d", "_", "s", "t", "o", "c", "k", "s", "_",
      "p", "r", "o", "p", "o", "r", "t", "i", "o", "n">>
F_heavy_hold_bond == <<"h", "e", "a", "v", "y", "_", "h", "o", "l", "d", "_", "b", "o", "n", "d">>
F_heavy_hold_bond_proportion ==
    <<"h", "e", "a", "v", "y", "_", "h", "o", "l", "d", "_", "b", "o", "n", "d", "_", "p", "r",
      "o", "p", "o", "r", "t", "i", "o", "n">>

\* the fields of FundInfo with their types, in declaration order
FundInfo ==
    << <<F_fund_name, "String">>,
       <<F_fund_type, "String">>,
       <<F_fund_establishment_day, "String">>,
       <<F_fund_manager, "String">>,
       <<F_fund_management_fee, "String">>,
       <<F_fund_custodian_fee, "String">>,
       <<F_fund_status, "String">>,
       <<F_fund_size, "String">>,
       <<F_fund_share, "f64">>,
       <<F_fund_asset_allocation_proportion, "String">>,
       <<F_heavy_hold_stocks, "Vec<String>">>,
       <<F_heavy_hold_stocks_proportion, "f64">>,
       <<F_heavy_hold_bond, "Vec<String>">>,
       <<F_heavy_hold_bond_proportion, "f64">> >>

JsonWhitespace == {" ", LF, CR}

\* results of the parser: the value and the index after it, or the message
JOk(v, i) == [ok |-> TRUE, val |-> v, at |-> i, msg |-> <<>>]
JErr(m) == [ok |-> FALSE, val |-> [t |-> "none", v |-> <<>>], at |-> 0, msg |-> <<m>>]

\* the first index from i on that is past s or holds no element of cs
SkipIn(s, i, cs) ==
    CHOOSE j \in i..(Len(s) + 1) :
        /\ j > Len(s) \/ s[j] \notin cs
        /\ \A k \in i..(j - 1) : s[k] \in cs

\* parse_whitespace
SkipWhitespace(s, i) == SkipIn(s, i, JsonWhitespace)

DigitChars == {Digits[d] : d \in 1..10}

\* a string, s[i] being its opening quote
ParseString(s, i) ==
    LET rest == SubSeq(s, i + 1, Len(s))
        q == FirstIn(rest, {DQ})
    IN  IF q = 0 THEN JErr("EOF while parsing a string")
        ELSE IF \E k \in 1..(q - 1) : rest[k] \in {LF, CR}
        THEN JErr("control character found while parsing a string")
        ELSE JOk([t |-> "str", v |-> SubSeq(rest, 1, q - 1)], i + q + 1)

\* a number, s[i] being a minus sign or a digit
ParseNumber(s, i) ==
    LET has(j, cs) == j <= Len(s) /\ s[j] \in cs
        int == IF s[i] = "-" THEN i + 1 ELSE i
        intEnd == IF has(int, {"0"}) THEN int + 1 ELSE SkipIn(s, int, DigitChars)
        frac == IF has(intEnd, {"."}) THEN intEnd + 1 ELSE intEnd
        fracEnd == SkipIn(s, frac, DigitChars)
        exp == IF has(fracEnd, {"e", "E"})
               THEN (IF has(fracEnd + 1, {"+", "-"}) THEN fracEnd + 2 ELSE fracEnd + 1)
               ELSE fracEnd
        expEnd == SkipIn(s, exp, DigitChars)
    IN  IF int > Len(s) THEN JErr("EOF while parsing a value")
        ELSE IF intEnd = int \/ has(intEnd, DigitChars) THEN JErr("invalid number")
        ELSE IF frac > intEnd /\ fracEnd = frac THEN JErr("invalid number")
        ELSE IF exp > fracEnd /\ expEnd = exp THEN JErr("invalid number")
        ELSE JOk([t |-> "num", v |-> SubSeq(s, i, expEnd - 1)], expEnd)

L_true == <<"t", "r", "u", "e">>
L_false == <<"f", "a", "l", "s", "e">>
L_null == <<"n", "u", "l", "l">>

\* true, false or null, s[i] being its first letter
ParseIdent(s, i) ==
    LET rest == SubSeq(s, i, Len(s))
    IN  IF StartsWith(rest, L_true) THEN JOk([t |-> "bool", v |-> <<>>], i + 4)
        ELSE IF StartsWith(rest, L_false) THEN JOk([t |-> "bool", v |-> <<>>], i + 5)
        ELSE IF StartsWith(rest, L_null) THEN JOk([t |-> "null", v |-> <<>>], i + 4)
        ELSE JErr("expected ident")

RECURSIVE ParseValue(_, _), ParseElements(_, _, _), ParseMembers(_, _, _)

\* the value that starts at the first non-whitespace character from i on
ParseValue(s, i) ==
    LET j == SkipWhitespace(s, i)
        k == SkipWhitespace(s, j + 1)
    IN  IF j > Len(s) THEN JErr("EOF while parsing a value")
        ELSE IF s[j] = DQ THEN ParseString(s, j)
        ELSE IF s[j] \in DigitChars \cup {"-"} THEN ParseNumber(s, j)
        ELSE IF s[j] \in {"t", "f", "n"} THEN ParseIdent(s, j)
        ELSE IF s[j] = "["
        THEN (IF k <= Len(s) /\ s[k] = "]" THEN JOk([t |-> "arr", v |-> <<>>], k + 1)
              ELSE ParseElements(s, k, <<>>))
        ELSE IF s[j] = "{"
        THEN (IF k <= Len(s) /\ s[k] = "}" THEN JOk([t |-> "obj", v |-> <<>>], k + 1)
              ELSE ParseMembers(s, k, <<>>))
        ELSE JErr("expected value")

\* the elements of an array from i on, after the elements acc
ParseElements(s, i, acc) ==
    LET r == ParseValue(s, i)
        j == SkipWhitespace(s, r.at)
    IN  IF i > Len(s) THEN JErr("EOF while parsing a list")
        ELSE IF ~r.ok THEN r
        ELSE IF j > Len(s) THEN JErr("EOF while parsing a list")
        ELSE IF s[j] = "]" THEN JOk([t |-> "arr", v |-> Append(acc, r.val)], j + 1)
        ELSE IF s[j] = "," THEN ParseElements(s, j + 1, Append(acc, r.val))
        ELSE JErr("expected comma or closing bracket")

\* the members of an object from i on, after the members acc
ParseMembers(s, i, acc) ==
    LET key == ParseString(s, i)
        c == SkipWhitespace(s, key.at)
        r == ParseValue(s, c + 1)
        j == SkipWhitespace(s, r.at)
    IN  IF i > Len(s) THEN JErr("EOF while parsing an object")
        ELSE IF s[i] # DQ THEN JErr("key must be a string")
        ELSE IF ~key.ok THEN key
        ELSE IF c > Len(s) THEN JErr("EOF while parsing an object")
        ELSE IF s[c] # ":" THEN JErr("expected colon")
        ELSE IF ~r.ok THEN r
        ELSE IF j > Len(s) THEN JErr("EOF while parsing an object")
        ELSE IF s[j] = "}"
        THEN JOk([t |-> "obj", v |-> Append(acc, <<key.val.v, r.val>>)], j + 1)
        ELSE IF s[j] = ","
        THEN ParseMembers(s, SkipWhitespace(s, j + 1), Append(acc, <<key.val.v, r.val>>))
        ELSE JErr("expected comma or closing brace")

\* whether a JSON value deserializes into a field of the type ty
HasType(value, ty) ==
    CASE ty = "String" -> value.t = "str"
      [] ty = "f64" -> value.t = "num"
      [] ty = "Vec<String>" ->
            value.t = "arr" /\ \A e \in 1..Len(value.v) : value.v[e].t = "str"

\* the value a field of the type ty gets: the characters of a string, the
\* literal of a number, the strings of an array
FieldValue(value, ty) ==
    IF ty = "Vec<String>" THEN [e \in 1..Len(value.v) |-> value.v[e].v] ELSE value.v

\* Deserialize for FundInfo (derived): from an object by field name, unknown
\* keys ignored, or from an array by position
DeserializeFundInfo(value) ==
    LET at(f) == {m \in 1..Len(value.v) : value.v[m][1] = FundInfo[f][1]}
        member(f) == value.v[CHOOSE m \in at(f) : TRUE][2]
    IN  IF value.t = "obj"
        THEN (IF \E f \in 1..Len(FundInfo) : Cardinality(at(f)) > 1
              THEN JErr("duplicate field")
              ELSE IF \E f \in 1..Len(FundInfo) :
                          at(f) # {} /\ ~HasType(member(f), FundInfo[f][2])
              THEN JErr("invalid type")
              ELSE IF \E f \in 1..Len(FundInfo) : at(f) = {}
              THEN JErr("missing field")
              ELSE JOk([f \in 1..Len(FundInfo) |-> FieldValue(member(f), FundInfo[f][2])], 0))
        ELSE IF value.t = "arr"
        THEN (IF \E f \in 1..Len(FundInfo) :
                     f <= Len(value.v) /\ ~HasType(value.v[f], FundInfo[f][2])
              THEN JErr("invalid type")
              ELSE IF Len(value.v) < Len(FundInfo) THEN JErr("invalid length")
              ELSE IF Len(value.v) > Len(FundInfo) THEN JErr("trailing characters")
              ELSE JOk([f \in 1..Len(FundInfo) |-> FieldValue(value.v[f], FundInfo[f][2])], 0))
        ELSE JErr("invalid type")

\* impl From<serde_json::Error> for Error
FromJsonError(err) == Err("Json", err.msg)

\* consume_json with T = FundInfo: the value is deserialized, and then only
\* whitespace may follow it
consume_json(body) ==
    LET parsed == ParseValue(body, 1)
        result == DeserializeFundInfo(parsed.val)
    IN  IF ~parsed.ok THEN FromJsonError(parsed)
        ELSE IF ~result.ok THEN FromJsonError(result)
        ELSE IF SkipWhitespace(body, parsed.at) <= Len(body)
        THEN FromJsonError(JErr("trailing characters"))
        ELSE Ok(result.val)

----------------------------------------------------------------------------
(* Commands and their descriptors.  A command value is its type and the    *)
(* entries <<key, value>> its Serialize impl writes, in declaration order. *)

\* Serialize for SecurityKind: the serde name of the variant
SerializeSecurityKind(variant) ==
    SecurityKind[CHOOSE i \in 1..Len(SecurityKind) : SecurityKind[i][1] = variant][2]

SecurityKindVariants == {SecurityKind[i][1] : i \in 1..Len(SecurityKind)}

\* an Option<String> field under skip_serializing_if = "Option::is_none"
SkipNone(key, opt) == IF opt = <<>> THEN <<>> ELSE << <<key, opt[1]>> >>

GetAllSecurities(code, date) ==
    [type |-> "GetAllSecurities",
     fields |-> << <<"code", SerializeSecurityKind(code)>> >> \o SkipNone("date", date)]

GetIndexStocks(code, date) ==
    [type |-> "GetIndexStocks", fields |-> << <<"code", code>>, <<"date", date>> >>]

\* RunQuery { table, columns, conditions, count }, count being None
RunQuery(table, columns, conditions) ==
    [type |-> "RunQuery",
     fields |-> << <<"table", table>>, <<"columns", columns>> >>
                    \o SkipNone("conditions", conditions)]

GetQueryCount == [type |-> "GetQueryCount", fields |-> <<>>]

GetFundInfo(code, date) ==
    [type |-> "GetFundInfo", fields |-> << <<"code", code>>, <<"date", date>> >>]

\* a unit struct (struct UnitCommand;), which the Request derive accepts
UnitCommand == [type |-> "UnitCommand", fields |-> <<>>]

\* a command struct with a field named token, and one with a field named
\* method (the builders take any serializable struct)
TokenFieldCommand(v) == [type |-> "TokenFieldCommand", fields |-> << <<"token", v>> >>]
MethodFieldCommand(v) == [type |-> "MethodFieldCommand", fields |-> << <<"method", v>> >>]

M_get_all_securities ==
    <<"g", "e", "t", "_", "a", "l", "l", "_", "s", "e", "c", "u", "r", "i", "t", "i", "e", "s">>
M_get_index_stocks ==
    <<"g", "e", "t", "_", "i", "n", "d", "e", "x", "_", "s", "t", "o", "c", "k", "s">>
M_run_query == <<"r", "u", "n", "_", "q", "u", "e", "r", "y">>
M_get_query_count ==
    <<"g", "e", "t", "_", "q", "u", "e", "r", "y", "_", "c", "o", "u", "n", "t">>
M_get_fund_info == <<"g", "e", "t", "_", "f", "u", "n", "d", "_", "i", "n", "f", "o">>
M_custom == <<"m">>

\* #[request(..)]: the method name the derived Request impl inserts
request_method_name(type) ==
    CASE type = "GetAllSecurities" -> M_get_all_securities
      [] type = "GetIndexStocks" -> M_get_index_stocks
      [] type = "RunQuery" -> M_run_query
      [] type = "GetQueryCount" -> M_run_query
      [] type = "GetFundInfo" -> M_get_fund_info
      [] OTHER -> M_custom

\* #[method("..")]: HasMethod::method of the async model
HasMethod_method(type) ==
    CASE type = "GetAllSecurities" -> M_get_all_securities
      [] type = "GetIndexStocks" -> M_get_index_stocks
      [] type = "RunQuery" -> M_run_query
      [] type = "GetQueryCount" -> M_get_query_count
      [] type = "GetFundInfo" -> M_get_fund_info
      [] OTHER -> M_custom

\* #[response(format = "..")] / #[consume(format = "..")]
response_format(type) ==
    CASE type = "GetAllSecurities" -> "csv"
      [] type = "GetIndexStocks" -> "line"
      [] type = "RunQuery" -> "line"
      [] type = "GetQueryCount" -> "single"
      [] type = "GetFundInfo" -> "json"
      [] OTHER -> "line"

----------------------------------------------------------------------------
(* The envelope builders.  A JSON object text is the sequence of its       *)
(* entries <<key, value>> as written; a serde_json::Value object is a      *)
(* function from its keys (serde_json's Map keeps one value per key and    *)
(* writes the keys in order).                                              *)

\* the JSON text null, which is no sequence of entries
JsonNull == << <<"null">> >>

\* whether a JSON text is an object
IsObjectText(text) == \A i \in 1..Len(text) : Len(text[i]) = 2

\* serde_json::to_string(&self) of a command struct: an object of its
\* fields, and null for a unit struct
Serialize(cmd) == IF cmd.type = "UnitCommand" THEN JsonNull ELSE cmd.fields

\* serde_json::from_str::<Value>: an object, a later entry replacing an
\* earlier one of the same key
FromStr(entries) ==
    [k \in {entries[i][1] : i \in 1..Len(entries)} |->
        entries[CHOOSE i \in 1..Len(entries) :
                    /\ entries[i][1] = k
                    /\ \A j \in (i + 1)..Len(entries) : entries[j][1] # k][2]]

\* Map::insert
Insert(obj, key, value) ==
    [k \in DOMAIN obj \cup {key} |-> IF k = key THEN value ELSE obj[k]]

\* the keys of the model in the order of serde_json's Map (BTreeMap)
KeyOrder == <<"code", "date", "method", "token">>

\* serde_json::to_string(&obj)
to_string(obj) ==
    LET has(k) == k \in DOMAIN obj
        ks == SelectSeq(KeyOrder, has)
    IN  [i \in 1..Len(ks) |-> <<ks[i], obj[ks[i]]>>]

UnexpectedJsonValue ==
    <<"u", "n", "e", "x", "p", "e", "c", "t", "e", "d", " ", "j", "s", "o", "n", " ",
      "v", "a", "l", "u", "e", ":", " ">>

\* request taking a value that is no object for an object without entries
request_any_value(cmd, tok) ==
    LET orig_str == Serialize(cmd)
        value == FromStr(IF IsObjectText(orig_str) THEN orig_str ELSE <<>>)
        obj == Insert(Insert(value, "method", request_method_name(cmd.type)), "token", tok)
    IN  Ok(to_string(obj))

\* the derived Request::request(&self, token)
request(cmd, tok) ==
    LET orig_str == Serialize(cmd)
        value == FromStr(orig_str)
        obj == Insert(Insert(value, "method", request_method_name(cmd.type)), "token", tok)
    IN  IF ~IsObjectText(orig_str) THEN Err("Client", UnexpectedJsonValue \o L_null)
        ELSE Ok(to_string(obj))

\* Request::new(token, payload)
Request_new(tok, payload) ==
    [token |-> tok, method |-> HasMethod_method(payload.type), payload |-> payload]

\* serde_json::to_string(&req_body) of Request<P>: token, method, then the
\* payload's entries flattened into the same map
SerializeRequest(req) ==
    Ok(<< <<"token", req.token>>, <<"method", req.method>> >> \o Serialize(req.payload))

\* the same for a payload that is a unit struct: serde's flattening either
\* rejects it or adds nothing for it, depending on the serde the build uses
SerializeRequestOutcomes(req) ==
    IF IsObjectText(Serialize(req.payload)) THEN {SerializeRequest(req)}
    ELSE {Err("Json", <<"can only flatten structs and maps (got unit struct)">>),
          Ok(<< <<"token", req.token>>, <<"method", req.method>> >>)}

----------------------------------------------------------------------------
(* Response bodies the server may send *)

HeaderIds == {"security", "security_parent", "partial", "error_plain", "error_comma"}

HeaderText(h) ==
    CASE h = "security" ->
            Join(<<F_code, F_display_name, F_name, F_start_date, F_end_date, F_type>>, <<",">>)
      [] h = "security_parent" ->
            Join(<<F_code, F_display_name, F_name, F_start_date, F_end_date, F_type,
                   F_parent>>, <<",">>)
      [] h = "partial" -> Join(<<F_code, F_type>>, <<",">>)
      [] h = "error_plain" -> Sentinel \o <<":", " ", "a">>
      [] h = "error_comma" -> Sentinel \o <<":", " ", "a", ",", "b">>

RowIds == {"r1", "r2", "r3p", "badkind", "short"}

RowText(r) ==
    CASE r = "r1" -> <<"A", ",", "x", ",", "n", ",", "1", ",", "2", ",", "s", "t", "o", "c", "k">>
      [] r = "r2" -> <<"B", ",", "y", ",", "m", ",", "1", ",", "2", ",", "f", "u", "n", "d">>
      [] r = "r3p" -> <<"C", ",", "z", ",", "k", ",", "1", ",", "2", ",", "e", "t", "f", ",", "P">>
      [] r = "badkind" -> <<"A", ",", "x", ",", "n", ",", "1", ",", "2", ",", "b", "o", "g", "u", "s">>
      [] r = "short" -> <<"A", ",", "x">>

\* header h, the rows rs, sep between the lines and, with eol, after the last
Render(h, rs, sep, eol) ==
    Join(<<HeaderText(h)>> \o [i \in 1..Len(rs) |-> RowText(rs[i])], sep)
        \o (IF eol THEN sep ELSE <<>>)

LineEnd(sep) == IF sep = "CRLF" THEN <<CR, LF>> ELSE <<LF>>

TabularResponses ==
    {[hdr |-> h, rows |-> rs, body |-> Render(h, rs, LineEnd(sep), eol)] :
        h \in HeaderIds, rs \in SeqUpTo(RowIds, MaxRows),
        sep \in {"LF", "CRLF"}, eol \in BOOLEAN}

Chunks ==
    {Sentinel, <<":">>, <<"a">>, <<"4">>, <<"2">>, <<"-">>, <<" ">>, <<",">>,
     <<LF>>, <<CR>>, <<"2", "1", "4", "7", "4", "8", "3", "6", "4", "8">>}

FreeResponses ==
    {[hdr |-> "free", rows |-> <<>>, body |-> Concat(cs)] : cs \in SeqUpTo(Chunks, MaxChunks)}

\* a JSON string, a member of an object, and an object
JStr(chars) == <<DQ>> \o chars \o <<DQ>>
JMember(key, text) == JStr(key) \o <<":">> \o text
JObject(members) == <<"{">> \o Join(members, <<",">>) \o <<"}">>

\* the text of a value of a field type
Sample(ty) ==
    CASE ty = "String" -> JStr(<<"x">>)
      [] ty = "f64" -> <<"1", ".", "5">>
      [] ty = "Vec<String>" -> <<"[">> \o JStr(<<"x">>) \o <<",">> \o JStr(<<"y">>) \o <<"]">>

\* the members of a FundInfo document
FundInfoMembers == [f \in 1..Len(FundInfo) |-> JMember(FundInfo[f][1], Sample(FundInfo[f][2]))]

JsonIds ==
    {"fund", "fund_ws", "fund_missing", "fund_badtype", "fund_extra", "fund_dup",
     "fund_trailing", "fund_array", "fund_cut", "fund_exp", "error_fund", "empty_object"}

JsonText(j) ==
    CASE j = "fund" -> JObject(FundInfoMembers)
      [] j = "fund_ws" -> <<LF, " ">> \o JObject(FundInfoMembers) \o <<CR, LF>>
      [] j = "fund_missing" -> JObject(Tail(FundInfoMembers))
      [] j = "fund_badtype" ->
            JObject(<<JMember(F_fund_name, Sample("f64"))>> \o Tail(FundInfoMembers))
      [] j = "fund_extra" ->
            JObject(<<JMember(F_code, L_null)>> \o FundInfoMembers)
      [] j = "fund_dup" -> JObject(FundInfoMembers \o <<Head(FundInfoMembers)>>)
      [] j = "fund_trailing" -> JObject(FundInfoMembers) \o <<"a">>
      [] j = "fund_array" ->
            <<"[">> \o Join([f \in 1..Len(FundInfo) |-> Sample(FundInfo[f][2])], <<",">>)
                \o <<"]">>
      [] j = "fund_cut" -> <<"{">> \o Join(FundInfoMembers, <<",">>)
      [] j = "fund_exp" ->
            JObject(<<JMember(F_fund_share, <<"-", "0", ".", "5", "e", "+", "2">>)>>
                        \o SelectSeq(FundInfoMembers,
                                      LAMBDA m : m # JMember(F_fund_share, Sample("f64"))))
      [] j = "error_fund" -> Sentinel \o <<":", " ">> \o JObject(FundInfoMembers)
      [] j = "empty_object" -> <<"{", "}">>

JsonResponses == {[hdr |-> "json", rows |-> <<j>>, body |-> JsonText(j)] : j \in JsonIds}

Responses == TabularResponses \cup FreeResponses \cup JsonResponses

----------------------------------------------------------------------------
(* Values the specifications share *)

T_abc == <<"a", "b", "c">>
T_2020 == <<"2", "0", "2", "0">>

\* the tokens a caller hands to with_token or to a builder
Tokens == {T_abc, <<"x">>, <<>>}

NoCommand == [type |-> "none", fields |-> <<>>]

DecodeIdle ==
    /\ response = [hdr |-> "free", rows |-> <<>>, body |-> <<>>]
    /\ format = "none"
    /\ output = NoOutput

EnvelopeIdle ==
    /\ command = NoCommand
    /\ token = <<>>
    /\ builder = "none"
    /\ envelope = NoOutput

\* no call of the blocking client in progress; prev holds the token sent and
\* the response received by the execute before, once there was one
IdleBlockingCall ==
    [op |-> "none", pc |-> "idle", n |-> 0, command |-> NoCommand, mob |-> <<>>,
     pwd |-> <<>>, request |-> <<>>, posts |-> 0, status |-> 0, response |-> <<>>,
     output |-> NoOutput, prev |-> <<>>]

BlockingIdle ==
    /\ bcli = <<>>
    /\ bcall = IdleBlockingCall
    /\ wire = <<>>

\* no SecurityKind under conversion
IdleKind ==
    [pc |-> "idle", from |-> "none", variant |-> "", input |-> <<>>, text |-> <<>>,
     back |-> NoOutput]

KindIdle == kind = IdleKind

----------------------------------------------------------------------------
(* The async client (src/lib.rs) *)

Callers == 1..MaxCallers

\* SharedClient { credential, token }; credential is an Option (<<>> is None)
SharedClient(credential, tok) == [credential |-> credential, token |-> tok]

\* ClientCredential { mob, pwd }
ClientCredential(mob, pwd) == [mob |-> mob, pwd |-> pwd]

M_get_current_token ==
    <<"g", "e", "t", "_", "c", "u", "r", "r", "e", "n", "t", "_", "t", "o", "k", "e", "n">>

NoCredentialMessage ==
    <<"c", "r", "e", "d", "e", "n", "t", "i", "a", "l", " ", "n", "o", "t", " ",
      "a", "v", "a", "i", "l", "a", "b", "l", "e", " ", "t", "o", " ",
      "r", "e", "f", "r", "e", "s", "h", " ", "t", "o", "k", "e", "n">>

\* refresh_token without the test for a credential
refresh_token_request_unguarded(shared_cli) ==
    LET credential == IF shared_cli.credential = <<>> THEN ClientCredential(<<>>, <<>>)
                      ELSE shared_cli.credential[1]
    IN  Ok(<< <<"method", M_get_current_token>>,
              <<"mob", credential.mob>>,
              <<"pwd", credential.pwd>> >>)

\* refresh_token up to send().await: the token request, or the error of a
\* client without credential
refresh_token_request(shared_cli) ==
    IF shared_cli.credential = <<>> THEN Err("Client", NoCredentialMessage)
    ELSE Ok(<< <<"method", M_get_current_token>>,
               <<"mob", shared_cli.credential[1].mob>>,
               <<"pwd", shared_cli.credential[1].pwd>> >>)

\* refresh_token with the sentinel test left out
refresh_token_response_unchecked(shared_cli, text) ==
    [result |-> Ok(<<>>), shared_cli |-> SharedClient(shared_cli.credential, text)]

\* refresh_token adding the response text to the token it holds
refresh_token_response_append(shared_cli, text) ==
    IF StartsWith(text, Sentinel)
    THEN [result |-> Err("Server", text), shared_cli |-> shared_cli]
    ELSE [result |-> Ok(<<>>),
          shared_cli |-> SharedClient(shared_cli.credential, shared_cli.token \o text)]

\* refresh_token storing the response text without the whitespace at its ends
refresh_token_response_trim(shared_cli, text) ==
    IF StartsWith(text, Sentinel)
    THEN [result |-> Err("Server", text), shared_cli |-> shared_cli]
    ELSE [result |-> Ok(<<>>), shared_cli |-> SharedClient(shared_cli.credential, Trim(text))]

\* refresh_token from the response text on: the result and self afterwards
refresh_token_response(shared_cli, text) ==
    IF StartsWith(text, Sentinel)
    THEN [result |-> Err("Server", text), shared_cli |-> shared_cli]
    ELSE [result |-> Ok(<<>>), shared_cli |-> SharedClient(shared_cli.credential, text)]

\* .map_err(|e| Error::Client(e.to_string())) of a reqwest error
TransportError == Err("Client", <<"reqwest error">>)

\* the conversion of a ParseIntError the async model's Error provides
\* (jqdata-model/src/errors.rs): a decode failure carrying the message
Model_FromParseIntError(err) == Err("Decode", err.msg)

\* SingleBodyConsumer::consume with T = i32
SingleBodyConsumer_consume(body) ==
    LET result == ParseI32(body)
    IN  IF result.ok THEN Ok(result.val) ELSE Model_FromParseIntError(result)

\* <C as BodyConsumer<_>>::consume_body: the consumer #[consume(format)] binds
consume_body(type, body) ==
    CASE response_format(type) = "csv" -> consume_csv(body)
      [] response_format(type) = "line" -> consume_line(body)
      [] response_format(type) = "single" -> SingleBodyConsumer_consume(body)

\* the commands the callers execute and the bodies the server answers with
ExecCommands == {GetAllSecurities("Stock", <<>>), GetQueryCount}

ExecBodies ==
    {Render("security", <<"r1">>, <<LF>>, TRUE), HeaderText("error_plain"), <<"4", "2">>}

\* the bodies the server answers a token request with
ExchangeBodies == {T_abc, <<>>, T_abc \o <<LF>>, HeaderText("error_plain")}

Credentials == {ClientCredential(<<"1">>, <<"p">>)}

IdleCtor ==
    [pc |-> "idle", shared_cli |-> SharedClient(<<>>, <<>>), request |-> <<>>,
     response |-> <<>>, result |-> NoOutput]

IdleCall ==
    [pc |-> "idle", n |-> 0, command |-> NoCommand,
     shared_cli |-> SharedClient(<<>>, <<>>), body |-> <<>>, posts |-> 0,
     response |-> <<>>, output |-> NoOutput]

ClientIdle ==
    /\ ctor = IdleCtor
    /\ inner = <<>>
    /\ mutex = 0
    /\ calls = [c \in Callers |-> IdleCall]

\* WithCredentialStart making the client before the token exchange is over
WithCredentialStart_publish(mob, pwd) ==
    LET shared_cli == SharedClient(<<ClientCredential(mob, pwd)>>, <<>>)
    IN  /\ ctor.pc = "idle"
        /\ ctor' = [ctor EXCEPT !.pc = "exchanging",
                                !.shared_cli = shared_cli,
                                !.request = refresh_token_request(shared_cli).val]
        /\ inner' = <<shared_cli>>
        /\ UNCHANGED <<mutex, calls, decodeVars, envelopeVars, exchangeVars, blockingVars, kindVars>>

\* with_credential: the SharedClient with the empty token, and refresh_token
\* up to its send().await
WithCredentialStart(mob, pwd) ==
    LET shared_cli == SharedClient(<<ClientCredential(mob, pwd)>>, <<>>)
    IN  /\ ctor.pc = "idle"
        /\ ctor' = [ctor EXCEPT !.pc = "exchanging",
                                !.shared_cli = shared_cli,
                                !.request = refresh_token_request(shared_cli).val]
        /\ UNCHANGED <<inner, mutex, calls, decodeVars, envelopeVars, exchangeVars, blockingVars, kindVars>>

\* the token request fails in transport: refresh_token and with_credential
\* return the error
WithCredentialTransportError ==
    /\ ctor.pc = "exchanging"
    /\ ctor' = [ctor EXCEPT !.pc = "failed", !.result = TransportError]
    /\ UNCHANGED <<inner, mutex, calls, decodeVars, envelopeVars, exchangeVars, blockingVars, kindVars>>

\* the token request is answered with text: the rest of refresh_token, and
\* with_credential making the client when it returned Ok
WithCredentialResponse(text) ==
    LET r == refresh_token_response(ctor.shared_cli, text)
    IN  /\ ctor.pc = "exchanging"
        /\ ctor' = [ctor EXCEPT !.pc = IF r.result.ok THEN "done" ELSE "failed",
                                !.response = text,
                                !.shared_cli = r.shared_cli,
                                !.result = r.result]
        /\ inner' = IF r.result.ok THEN <<r.shared_cli>> ELSE inner
        /\ UNCHANGED <<mutex, calls, decodeVars, envelopeVars, exchangeVars, blockingVars, kindVars>>

\* execute is called on a client that exists, and awaits self.inner.lock()
ExecuteStart(c, cmd) ==
    /\ inner # <<>>
    /\ calls[c].pc = "idle"
    /\ calls[c].n < MaxExecutes
    /\ calls' = [calls EXCEPT ![c] = [IdleCall EXCEPT !.pc = "waiting",
                                                     !.n = calls[c].n,
                                                     !.command = cmd]]
    /\ UNCHANGED <<ctor, inner, mutex, decodeVars, envelopeVars, exchangeVars, blockingVars, kindVars>>

\* self.inner.lock().await completes: the lock is free and the call takes it
ExecuteLock(c) ==
    /\ calls[c].pc = "waiting"
    /\ mutex = 0
    /\ mutex' = c
    /\ calls' = [calls EXCEPT ![c].pc = "locked"]
    /\ UNCHANGED <<ctor, inner, decodeVars, envelopeVars, exchangeVars, blockingVars, kindVars>>

\* ExecuteClone keeping the guard for the rest of execute
ExecuteClone_holds(c) ==
    /\ calls[c].pc = "locked"
    /\ mutex = c
    /\ calls' = [calls EXCEPT ![c].pc = "cloned", ![c].shared_cli = inner[1]]
    /\ UNCHANGED <<ctor, inner, mutex, decodeVars, envelopeVars, exchangeVars, blockingVars, kindVars>>

\* Arc::clone(cli_ref), and the guard dropped at the end of the block
ExecuteClone(c) ==
    /\ calls[c].pc = "locked"
    /\ mutex = c
    /\ mutex' = 0
    /\ calls' = [calls EXCEPT ![c].pc = "cloned", ![c].shared_cli = inner[1]]
    /\ UNCHANGED <<ctor, inner, decodeVars, envelopeVars, exchangeVars, blockingVars, kindVars>>

\* ExecuteSend writing the fields of the SharedClient into the envelope
ExecuteSend_credential(c) ==
    LET body == SerializeRequest(Request_new(calls[c].shared_cli.token, calls[c].command))
        credential == calls[c].shared_cli.credential[1]
    IN  /\ calls[c].pc = "cloned"
        /\ calls' = [calls EXCEPT ![c].pc = "sent",
                                  ![c].body = body.val \o << <<"mob", credential.mob>>,
                                                            <<"pwd", credential.pwd>> >>,
                                  ![c].posts = calls[c].posts + 1]
        /\ UNCHANGED <<ctor, inner, mutex, decodeVars, envelopeVars, exchangeVars, blockingVars, kindVars>>

\* ExecuteSend posting only while no other call awaits a response
ExecuteSend_waits(c) ==
    LET body == SerializeRequest(Request_new(calls[c].shared_cli.token, calls[c].command))
    IN  /\ calls[c].pc = "cloned"
        /\ \A d \in Callers \ {c} : calls[d].pc # "sent"
        /\ calls' = [calls EXCEPT ![c].pc = IF body.ok THEN "sent" ELSE "done",
                                  ![c].body = body.val,
                                  ![c].posts = IF body.ok THEN calls[c].posts + 1
                                               ELSE calls[c].posts,
                                  ![c].output = IF body.ok THEN NoOutput ELSE body]
        /\ UNCHANGED <<ctor, inner, mutex, decodeVars, envelopeVars, exchangeVars, blockingVars, kindVars>>

\* Request::new, serde_json::to_string, and the POST up to send().await
ExecuteSend(c) ==
    LET body == SerializeRequest(Request_new(calls[c].shared_cli.token, calls[c].command))
    IN  /\ calls[c].pc = "cloned"
        /\ calls' = [calls EXCEPT ![c].pc = IF body.ok THEN "sent" ELSE "done",
                                  ![c].body = body.val,
                                  ![c].posts = IF body.ok THEN calls[c].posts + 1
                                               ELSE calls[c].posts,
                                  ![c].output = IF body.ok THEN NoOutput ELSE body]
        /\ UNCHANGED <<ctor, inner, mutex, decodeVars, envelopeVars, exchangeVars, blockingVars, kindVars>>

\* ExecuteTransportError posting the request once more before it gives up
ExecuteTransportError_retry(c) ==
    /\ calls[c].pc = "sent"
    /\ calls' = [calls EXCEPT
                    ![c].pc = IF calls[c].posts < 2 THEN "sent" ELSE "done",
                    ![c].posts = IF calls[c].posts < 2 THEN calls[c].posts + 1
                                 ELSE calls[c].posts,
                    ![c].output = IF calls[c].posts < 2 THEN NoOutput ELSE TransportError]
    /\ UNCHANGED <<ctor, inner, mutex, decodeVars, envelopeVars, exchangeVars, blockingVars, kindVars>>

\* send() or text() fails: execute returns Error::Client
ExecuteTransportError(c) ==
    /\ calls[c].pc = "sent"
    /\ calls' = [calls EXCEPT ![c].pc = "done", ![c].output = TransportError]
    /\ UNCHANGED <<ctor, inner, mutex, decodeVars, envelopeVars, exchangeVars, blockingVars, kindVars>>

\* ExecuteResponse returning the error of another call that has failed
ExecuteResponse_shared(c, text) ==
    LET failed == {d \in Callers \ {c} : calls[d].pc = "done" /\ ~calls[d].output.ok}
    IN  /\ calls[c].pc = "sent"
        /\ calls' = [calls EXCEPT
                        ![c].pc = "done",
                        ![c].response = text,
                        ![c].output = IF failed # {}
                                      THEN calls[CHOOSE d \in failed : TRUE].output
                                      ELSE consume_body(calls[c].command.type, text)]
        /\ UNCHANGED <<ctor, inner, mutex, decodeVars, envelopeVars, exchangeVars, blockingVars, kindVars>>

\* ExecuteResponse putting the empty token in place of one the server refused
ExecuteResponse_reauth(c, text) ==
    /\ calls[c].pc = "sent"
    /\ calls' = [calls EXCEPT ![c].pc = "done",
                              ![c].response = text,
                              ![c].output = consume_body(calls[c].command.type, text)]
    /\ inner' = IF StartsWith(text, Sentinel)
                THEN <<SharedClient(inner[1].credential, <<>>)>>
                ELSE inner
    /\ UNCHANGED <<ctor, mutex, decodeVars, envelopeVars, exchangeVars, blockingVars, kindVars>>

\* the response text arrives: consume_body, and execute returns
ExecuteResponse(c, text) ==
    /\ calls[c].pc = "sent"
    /\ calls' = [calls EXCEPT ![c].pc = "done",
                              ![c].response = text,
                              ![c].output = consume_body(calls[c].command.type, text)]
    /\ UNCHANGED <<ctor, inner, mutex, decodeVars, envelopeVars, exchangeVars, blockingVars, kindVars>>

\* the caller has the result of execute and may call again
ExecuteReturn(c) ==
    /\ calls[c].pc = "done"
    /\ calls' = [calls EXCEPT ![c] = [IdleCall EXCEPT !.n = calls[c].n + 1]]
    /\ UNCHANGED <<ctor, inner, mutex, decodeVars, envelopeVars, exchangeVars, blockingVars, kindVars>>

----------------------------------------------------------------------------
(* The token exchange: get_token of the blocking client (cli.rs) and         *)
(* SharedClient::refresh_token of the async client, each called once on     *)
(* arguments of its type.                                                   *)

M_get_token == <<"g", "e", "t", "_", "t", "o", "k", "e", "n">>

\* get_token with the method names of the two variants exchanged
get_token_request_swapped(mob, pwd, reuse) ==
    << <<"method", IF reuse THEN M_get_token ELSE M_get_current_token>>,
       <<"mob", mob>>,
       <<"pwd", pwd>> >>

\* get_token up to send(): token_req.to_string(), the keys in the order of
\* serde_json's Map
get_token_request(mob, pwd, reuse) ==
    << <<"method", IF reuse THEN M_get_current_token ELSE M_get_token>>,
       <<"mob", mob>>,
       <<"pwd", pwd>> >>

\* get_token from the response text on
get_token_response(text) ==
    IF StartsWith(text, Sentinel) THEN Err("Server", text) ELSE Ok(text)

\* impl From<reqwest::Error> for Error
ReqwestError == Err("Reqwest", <<"reqwest error">>)

Mobs == {<<"1">>, <<"2">>}
Pwds == {<<"p">>, <<"q">>}

\* the token a SharedClient holds when refresh_token is called
PriorTokens == {<<>>, T_abc, <<"x">>}

\* the bodies a token request is answered with
TokenResponses ==
    ExchangeBodies \cup {Sentinel, <<"x", "y">>, <<" ">> \o Sentinel, T_abc \o <<LF>>}

ExchangeReady ==
    [fn |-> "none", pc |-> "ready", via |-> "direct", mob |-> <<>>, pwd |-> <<>>,
     reuse |-> TRUE, self0 |-> SharedClient(<<>>, <<>>), self |-> SharedClient(<<>>, <<>>),
     request |-> <<>>, posts |-> 0, response |-> <<>>, result |-> NoOutput]

ExchangeIdle == exchange = ExchangeReady

\* the arguments: mob, pwd and reuse of get_token (with_credential passes
\* true), and the SharedClient refresh_token is called on, with or without
\* a credential
ExchangeArguments ==
    {a \in [via : {"direct", "with_credential"}, mob : Mobs, pwd : Pwds, reuse : BOOLEAN,
            stored : BOOLEAN, token : PriorTokens] :
        a.via = "with_credential" => a.reuse}

InitExchange ==
    /\ exchange \in
          {[ExchangeReady EXCEPT
               !.via = a.via, !.mob = a.mob, !.pwd = a.pwd, !.reuse = a.reuse,
               !.self0 = SharedClient(IF a.stored THEN <<ClientCredential(a.mob, a.pwd)>>
                                      ELSE <<>>, a.token),
               !.self = SharedClient(IF a.stored THEN <<ClientCredential(a.mob, a.pwd)>>
                                     ELSE <<>>, a.token)] : a \in ExchangeArguments}
    /\ DecodeIdle
    /\ EnvelopeIdle
    /\ ClientIdle
    /\ BlockingIdle
    /\ KindIdle

\* get_token up to send()
GetTokenSend ==
    /\ exchange.fn = "none"
    /\ exchange' = [exchange EXCEPT
                       !.fn = "get_token",
                       !.pc = "sent",
                       !.request = get_token_request(exchange.mob, exchange.pwd, exchange.reuse),
                       !.posts = exchange.posts + 1]
    /\ UNCHANGED <<decodeVars, envelopeVars, clientVars, blockingVars, kindVars>>

\* send() or text() fails: get_token returns the reqwest error
GetTokenTransportError ==
    /\ exchange.fn = "get_token"
    /\ exchange.pc = "sent"
    /\ exchange' = [exchange EXCEPT !.pc = "aborted", !.result = ReqwestError]
    /\ UNCHANGED <<decodeVars, envelopeVars, clientVars, blockingVars, kindVars>>

\* the response text arrives: the rest of get_token
GetTokenResponse(text) ==
    /\ exchange.fn = "get_token"
    /\ exchange.pc = "sent"
    /\ exchange' = [exchange EXCEPT !.pc = "done",
                                    !.response = text,
                                    !.result = get_token_response(text)]
    /\ UNCHANGED <<decodeVars, envelopeVars, clientVars, blockingVars, kindVars>>

\* refresh_token up to send().await, or to its early return
RefreshTokenSend ==
    LET r == refresh_token_request(exchange.self)
    IN  /\ exchange.fn = "none"
        /\ exchange' = [exchange EXCEPT
                           !.fn = "refresh_token",
                           !.pc = IF r.ok THEN "sent" ELSE "refused",
                           !.request = r.val,
                           !.posts = IF r.ok THEN exchange.posts + 1 ELSE exchange.posts,
                           !.result = IF r.ok THEN NoOutput ELSE r]
        /\ UNCHANGED <<decodeVars, envelopeVars, clientVars, blockingVars, kindVars>>

\* send().await returns the response: refresh_token goes on to text().await
RefreshTokenHeaders ==
    /\ exchange.fn = "refresh_token"
    /\ exchange.pc = "sent"
    /\ exchange' = [exchange EXCEPT !.pc = "reading"]
    /\ UNCHANGED <<decodeVars, envelopeVars, clientVars, blockingVars, kindVars>>

\* a cancellation that gives up the token held
RefreshTokenCancel_clears ==
    /\ exchange.fn = "refresh_token"
    /\ exchange.pc \in {"sent", "reading"}
    /\ exchange' = [exchange EXCEPT
                       !.pc = IF exchange.pc = "sent" THEN "cancelled at send"
                              ELSE "cancelled at text",
                       !.self = SharedClient(exchange.self.credential, <<>>)]
    /\ UNCHANGED <<decodeVars, envelopeVars, clientVars, blockingVars, kindVars>>

\* the future of refresh_token is dropped while it awaits send() or text():
\* the locals are dropped, self is as it was
RefreshTokenCancel ==
    /\ exchange.fn = "refresh_token"
    /\ exchange.pc \in {"sent", "reading"}
    /\ exchange' = [exchange EXCEPT
                       !.pc = IF exchange.pc = "sent" THEN "cancelled at send"
                              ELSE "cancelled at text"]
    /\ UNCHANGED <<decodeVars, envelopeVars, clientVars, blockingVars, kindVars>>

\* send() or text() fails: refresh_token returns Error::Client
RefreshTokenTransportError ==
    /\ exchange.fn = "refresh_token"
    /\ exchange.pc \in {"sent", "reading"}
    /\ exchange' = [exchange EXCEPT !.pc = "aborted", !.result = TransportError]
    /\ UNCHANGED <<decodeVars, envelopeVars, clientVars, blockingVars, kindVars>>

\* the response text arrives: the rest of refresh_token
RefreshTokenResponse(text) ==
    LET r == refresh_token_response(exchange.self, text)
    IN  /\ exchange.fn = "refresh_token"
        /\ exchange.pc = "reading"
        /\ exchange' = [exchange EXCEPT !.pc = "done",
                                        !.response = text,
                                        !.self = r.shared_cli,
                                        !.result = r.result]
        /\ UNCHANGED <<decodeVars, envelopeVars, clientVars, blockingVars, kindVars>>

NextExchange ==
    \/ GetTokenSend
    \/ GetTokenTransportError
    \/ \E text \in TokenResponses : GetTokenResponse(text)
    \/ RefreshTokenSend
    \/ RefreshTokenHeaders
    \/ RefreshTokenCancel
    \/ RefreshTokenTransportError
    \/ \E text \in TokenResponses : RefreshTokenResponse(text)

SpecExchange == InitExchange /\ [][NextExchange]_vars

----------------------------------------------------------------------------
(* The blocking client (jqdata-blocking/cli.rs) *)

\* the derived Response::response taking the consumer from the body
Response_response_sniffing(type, body) ==
    IF StartsWith(body, Sentinel) THEN consume_csv(body)
    ELSE IF body # <<>> /\ body[1] = "{" THEN consume_json(body)
    ELSE IF body # <<>> /\ IsDigit(body[1]) THEN consume_single(body)
    ELSE consume_line(body)

\* the derived Response::response: the consumer #[response(format)] names
Response_response(type, body) ==
    CASE response_format(type) = "csv" -> consume_csv(body)
      [] response_format(type) = "line" -> consume_line(body)
      [] response_format(type) = "single" -> consume_single(body)
      [] response_format(type) = "json" -> consume_json(body)

\* the status codes of the responses send() returns (a redirect that reqwest
\* follows is not returned, the response it ends at is)
Statuses == {200, 302, 404, 500}

\* Response_body failing the read of a response that is not a success
Response_body_for_status(status, body) == IF status \in 200..299 THEN body ELSE <<>>

\* the body the program reads from a Response, by text() or through Read:
\* send() is not followed by error_for_status, and no status is looked at
Response_body(status, body) == body

\* the commands executed on the blocking client
BlockingCommands ==
    {GetAllSecurities("Stock", <<>>), GetAllSecurities("Fund", <<T_2020>>),
     GetIndexStocks(T_abc, T_2020), GetQueryCount, GetFundInfo(T_abc, T_2020), UnitCommand}

\* the bodies the server answers a command with (a JSON document for a
\* command of the JSON format only)
BlockingBodies(cmd) ==
    ExecBodies \cup (IF response_format(cmd.type) = "json" THEN {JsonText("fund")} ELSE {})

\* what the next call remembers of the call that has returned
Previous(call) ==
    IF call.op # "execute" THEN <<>>
    ELSE <<[posts |-> call.posts, request |-> call.request, response |-> call.response,
            kind |-> call.output.kind]>>

\* with_token
WithToken(tok) ==
    /\ bcli = <<>>
    /\ bcall.pc = "idle"
    /\ bcli' = <<[token |-> tok]>>
    /\ bcall' = [bcall EXCEPT !.op = "with_token", !.pc = "done", !.output = Ok(<<>>)]
    /\ UNCHANGED <<wire, decodeVars, envelopeVars, clientVars, exchangeVars, kindVars>>

\* with_credential: get_token(mob, pwd, true) up to send()
BlockingWithCredentialSend(mob, pwd) ==
    /\ bcli = <<>>
    /\ bcall.pc = "idle"
    /\ bcall' = [bcall EXCEPT !.op = "with_credential", !.pc = "sent", !.mob = mob,
                              !.pwd = pwd, !.request = get_token_request(mob, pwd, TRUE),
                              !.posts = 1]
    /\ wire' = Append(wire, [by |-> "get_token", body |-> get_token_request(mob, pwd, TRUE)])
    /\ UNCHANGED <<bcli, decodeVars, envelopeVars, clientVars, exchangeVars, kindVars>>

\* send() or text() of get_token fails: with_credential returns the error
BlockingWithCredentialTransportError ==
    /\ bcall.op = "with_credential"
    /\ bcall.pc = "sent"
    /\ bcall' = [bcall EXCEPT !.pc = "failed", !.output = ReqwestError]
    /\ UNCHANGED <<bcli, wire, decodeVars, envelopeVars, clientVars, exchangeVars, kindVars>>

\* the token request is answered: the rest of get_token, and with_credential
\* making the client of the token it returned
BlockingWithCredentialResponse(status, text) ==
    LET r == get_token_response(Response_body(status, text))
    IN  /\ bcall.op = "with_credential"
        /\ bcall.pc = "sent"
        /\ bcall' = [bcall EXCEPT !.pc = IF r.ok THEN "done" ELSE "failed",
                                  !.status = status,
                                  !.response = text,
                                  !.output = IF r.ok THEN Ok(<<>>) ELSE r]
        /\ bcli' = IF r.ok THEN <<[token |-> r.val]>> ELSE bcli
        /\ UNCHANGED <<wire, decodeVars, envelopeVars, clientVars, exchangeVars, kindVars>>

\* execute: command.request(&self.token)?, and the POST up to send()
BlockingExecuteSend(cmd) ==
    LET req_body == request(cmd, bcli[1].token)
    IN  /\ bcli # <<>>
        /\ bcall.pc = "done"
        /\ bcall.n < MaxExecutes
        /\ bcall' = [IdleBlockingCall EXCEPT
                        !.op = "execute",
                        !.pc = IF req_body.ok THEN "sent" ELSE "done",
                        !.n = bcall.n + 1,
                        !.command = cmd,
                        !.request = req_body.val,
                        !.posts = IF req_body.ok THEN 1 ELSE 0,
                        !.output = IF req_body.ok THEN NoOutput ELSE req_body,
                        !.prev = Previous(bcall)]
        /\ wire' = IF req_body.ok
                   THEN Append(wire, [by |-> "execute", body |-> req_body.val])
                   ELSE wire
        /\ UNCHANGED <<bcli, decodeVars, envelopeVars, clientVars, exchangeVars, kindVars>>

\* send() fails: execute returns the reqwest error
BlockingExecuteTransportError ==
    /\ bcall.op = "execute"
    /\ bcall.pc = "sent"
    /\ bcall' = [bcall EXCEPT !.pc = "done", !.output = ReqwestError]
    /\ UNCHANGED <<bcli, wire, decodeVars, envelopeVars, clientVars, exchangeVars, kindVars>>

\* the response arrives: command.response(response)?, and execute returns
BlockingExecuteResponse(status, text) ==
    /\ bcall.op = "execute"
    /\ bcall.pc = "sent"
    /\ text \in BlockingBodies(bcall.command)
    /\ bcall' = [bcall EXCEPT !.pc = "done",
                              !.status = status,
                              !.response = text,
                              !.output = Response_response(bcall.command.type,
                                                           Response_body(status, text))]
    /\ UNCHANGED <<bcli, wire, decodeVars, envelopeVars, clientVars, exchangeVars, kindVars>>

InitBlocking ==
    /\ BlockingIdle
    /\ DecodeIdle
    /\ EnvelopeIdle
    /\ ClientIdle
    /\ ExchangeIdle
    /\ KindIdle

NextBlocking ==
    \/ \E tok \in Tokens : WithToken(tok)
    \/ \E mob \in Mobs, pwd \in Pwds : BlockingWithCredentialSend(mob, pwd)
    \/ BlockingWithCredentialTransportError
    \/ \E status \in Statuses, text \in TokenResponses :
           BlockingWithCredentialResponse(status, text)
    \/ \E cmd \in BlockingCommands : BlockingExecuteSend(cmd)
    \/ BlockingExecuteTransportError
    \/ \E status \in Statuses, text \in ExecBodies \cup {JsonText("fund")} :
           BlockingExecuteResponse(status, text)

SpecBlocking == InitBlocking /\ [][NextBlocking]_vars

----------------------------------------------------------------------------
(* The async client as a whole *)

Init ==
    ClientIdle /\ DecodeIdle /\ EnvelopeIdle /\ ExchangeIdle /\ BlockingIdle /\ KindIdle

Next ==
    \/ \E cr \in Credentials : WithCredentialStart(cr.mob, cr.pwd)
    \/ WithCredentialTransportError
    \/ \E text \in ExchangeBodies : WithCredentialResponse(text)
    \/ \E c \in Callers, cmd \in ExecCommands : ExecuteStart(c, cmd)
    \/ \E c \in Callers : ExecuteLock(c)
    \/ \E c \in Callers : ExecuteClone(c)
    \/ \E c \in Callers : ExecuteSend(c)
    \/ \E c \in Callers : ExecuteTransportError(c)
    \/ \E c \in Callers, text \in ExecBodies : ExecuteResponse(c, text)
    \/ \E c \in Callers : ExecuteReturn(c)

Spec == Init /\ [][Next]_vars

\* The scheduling of the tasks.  The runtime polls a task that is ready, so
\* a call that can clone the snapshot or post its request does so; the lock
\* of tokio's Mutex is granted in the order it was asked for, so a call that
\* waits for a lock that is free again and again gets it.  Nothing is
\* assumed of the server: a response may never arrive.
Fairness ==
    \A c \in Callers :
        /\ SF_vars(ExecuteLock(c))
        /\ WF_vars(ExecuteClone(c))
        /\ WF_vars(ExecuteSend(c))

\* The steps of FairSpec are those of Spec with one token, one command and
\* one response body: progress does not depend on the texts exchanged.
NextFair ==
    \/ \E cr \in Credentials : WithCredentialStart(cr.mob, cr.pwd)
    \/ WithCredentialTransportError
    \/ WithCredentialResponse(T_abc)
    \/ \E c \in Callers : ExecuteStart(c, GetQueryCount)
    \/ \E c \in Callers : ExecuteLock(c)
    \/ \E c \in Callers : ExecuteClone(c)
    \/ \E c \in Callers : ExecuteSend(c)
    \/ \E c \in Callers : ExecuteTransportError(c)
    \/ \E c \in Callers : ExecuteResponse(c, <<"4", "2">>)
    \/ \E c \in Callers : ExecuteReturn(c)

FairSpec == Init /\ [][NextFair]_vars /\ Fairness

----------------------------------------------------------------------------
(* SpecKind: a SecurityKind written by serde_json::to_string and read by  *)
(* serde_json::from_str, as tests::assert_serde_security_kind does, and a  *)
(* JSON text read and written back                                         *)

\* serde_json::to_string of a SecurityKind: its serde name as a JSON string
SecurityKind_to_string(variant) == <<DQ>> \o SerializeSecurityKind(variant) \o <<DQ>>

\* serde_json::from_str::<SecurityKind>: a JSON string naming a variant,
\* with nothing but whitespace after it
SecurityKind_from_str(text) ==
    LET parsed == ParseValue(text, 1)
        result == DeserializeSecurityKind(parsed.val.v)
    IN  IF ~parsed.ok THEN FromJsonError(parsed)
        ELSE IF parsed.val.t # "str" THEN Err("Json", <<"invalid type">>)
        ELSE IF ~result.ok THEN Err("Json", result.msg)
        ELSE IF SkipWhitespace(text, parsed.at) <= Len(text)
        THEN Err("Json", <<"trailing characters">>)
        ELSE result

\* the JSON texts read: the serde name of every variant, its identifier,
\* what rename_all alone would call it, and texts that name no variant
KindTexts ==
    {<<DQ>> \o SecurityKind[i][2] \o <<DQ>> : i \in 1..Len(SecurityKind)}
        \cup {<<DQ>> \o SecurityKindDecl[i].ident \o <<DQ>> : i \in 1..Len(SecurityKindDecl)}
        \cup {<<DQ>> \o snake_case(SecurityKindDecl[i].ident) \o <<DQ>> :
                  i \in 1..Len(SecurityKindDecl)}
        \cup {<<DQ, DQ>>, <<"s", "t", "o", "c", "k">>, <<"1">>, <<>>,
              <<DQ, "s", "t", "o", "c", "k", DQ, LF>>,
              <<DQ, "s", "t", "o", "c", "k", DQ, "x">>,
              <<DQ, "s", "t", "o", "c", "k", " ", DQ>>,
              <<DQ, "q", "d", "i", "i", "_", "f", "u", "n", "d", DQ>>}

InitKind ==
    /\ \/ \E v \in SecurityKindVariants :
              kind = [IdleKind EXCEPT !.pc = "start", !.from = "value", !.variant = v]
       \/ \E t \in KindTexts :
              kind = [IdleKind EXCEPT !.pc = "start", !.from = "text", !.input = t]
    /\ DecodeIdle
    /\ EnvelopeIdle
    /\ ClientIdle
    /\ ExchangeIdle
    /\ BlockingIdle

\* serde_json::to_string(k), of the value given or of the value read
SerializeKind ==
    /\ \/ kind.from = "value" /\ kind.pc = "start"
       \/ kind.from = "text" /\ kind.pc = "read" /\ kind.back.ok
    /\ kind' = [kind EXCEPT
                   !.pc = IF kind.from = "value" THEN "written" ELSE "done",
                   !.text = SecurityKind_to_string(
                                IF kind.from = "value" THEN kind.variant ELSE kind.back.val)]
    /\ UNCHANGED <<decodeVars, envelopeVars, clientVars, exchangeVars, blockingVars>>

\* serde_json::from_str::<SecurityKind>, of the text written or of the text given
DeserializeKind ==
    /\ \/ kind.from = "value" /\ kind.pc = "written"
       \/ kind.from = "text" /\ kind.pc = "start"
    /\ kind' = [kind EXCEPT
                   !.pc = IF kind.from = "value" THEN "done" ELSE "read",
                   !.back = SecurityKind_from_str(
                                IF kind.from = "value" THEN kind.text ELSE kind.input)]
    /\ UNCHANGED <<decodeVars, envelopeVars, clientVars, exchangeVars, blockingVars>>

NextKind == SerializeKind \/ DeserializeKind

SpecKind == InitKind /\ [][NextKind]_vars

----------------------------------------------------------------------------
(* SpecDecode: one response body, decoded by one of the consumers *)

InitDecode ==
    /\ response \in Responses
    /\ format = "none"
    /\ output = NoOutput
    /\ EnvelopeIdle
    /\ ClientIdle
    /\ ExchangeIdle
    /\ BlockingIdle
    /\ KindIdle

\* the csv reader is applied to bodies without quotes
QuoteFree(body) == FirstIn(body, {DQ}) = 0

ConsumeCsv ==
    /\ format = "none"
    /\ QuoteFree(response.body)
    /\ format' = "csv"
    /\ output' = consume_csv(response.body)
    /\ UNCHANGED <<response, envelopeVars, clientVars, exchangeVars, blockingVars, kindVars>>

ConsumeLine ==
    /\ format = "none"
    /\ format' = "line"
    /\ output' = consume_line(response.body)
    /\ UNCHANGED <<response, envelopeVars, clientVars, exchangeVars, blockingVars, kindVars>>

ConsumeSingle ==
    /\ format = "none"
    /\ format' = "single"
    /\ output' = consume_single(response.body)
    /\ UNCHANGED <<response, envelopeVars, clientVars, exchangeVars, blockingVars, kindVars>>

ConsumeJson ==
    /\ format = "none"
    /\ format' = "json"
    /\ output' = consume_json(response.body)
    /\ UNCHANGED <<response, envelopeVars, clientVars, exchangeVars, blockingVars, kindVars>>

NextDecode == ConsumeCsv \/ ConsumeLine \/ ConsumeSingle \/ ConsumeJson

SpecDecode == InitDecode /\ [][NextDecode]_vars

----------------------------------------------------------------------------
(* SpecEnvelope: one command and one token, given to one of the builders *)

Commands ==
    {GetAllSecurities(k, d) : k \in SecurityKindVariants, d \in {<<>>, <<T_2020>>}}
        \cup {GetIndexStocks(T_abc, T_2020), GetQueryCount, GetFundInfo(T_abc, T_2020),
              UnitCommand}
        \cup {RunQuery(<<"t">>, <<"c">>, cond) : cond \in {<<>>, <<T_abc>>}}
        \cup {TokenFieldCommand(v) : v \in {T_abc, <<"x">>}}
        \cup {MethodFieldCommand(v) : v \in {M_custom, <<"x">>}}

InitEnvelope ==
    /\ command \in Commands
    /\ token \in Tokens
    /\ builder = "none"
    /\ envelope = NoOutput
    /\ DecodeIdle
    /\ ClientIdle
    /\ ExchangeIdle
    /\ BlockingIdle
    /\ KindIdle

\* command.request(&self.token) of the blocking client
DerivedRequest ==
    /\ builder = "none"
    /\ builder' = "derived"
    /\ envelope' = request(command, token)
    /\ UNCHANGED <<command, token, decodeVars, clientVars, exchangeVars, blockingVars, kindVars>>

\* Request::new(token, command) and serde_json::to_string of the async client
FlattenRequest ==
    /\ builder = "none"
    /\ builder' = "flatten"
    /\ envelope' \in SerializeRequestOutcomes(Request_new(token, command))
    /\ UNCHANGED <<command, token, decodeVars, clientVars, exchangeVars, blockingVars, kindVars>>

NextEnvelope == DerivedRequest \/ FlattenRequest

SpecEnvelope == InitEnvelope /\ [][NextEnvelope]_vars

----------------------------------------------------------------------------
(* What the claims speak of, stated without the consumers *)

\* the body's first non-empty line starts with the sentinel
SentinelHeader(body) ==
    \E k \in 0..Len(body) :
        /\ \A j \in 1..k : body[j] \in {LF, CR}
        /\ StartsWith(SubSeq(body, k + 1, Len(body)), Sentinel)

\* the body's first non-empty line
FirstLine(body) ==
    LET k == CHOOSE k \in 0..Len(body) :
                 /\ \A j \in 1..k : body[j] \in {LF, CR}
                 /\ k < Len(body) => body[k + 1] \notin {LF, CR}
        rest == SubSeq(body, k + 1, Len(body))
        e == FirstIn(rest, {LF, CR})
    IN  IF e = 0 THEN rest ELSE SubSeq(rest, 1, e - 1)

\* the rows that are valid under a header
ValidRows(h) ==
    CASE h = "security" -> {"r1", "r2"}
      [] h = "security_parent" -> {"r3p"}
      [] OTHER -> {}

\* the Security a valid row stands for
ExpectedRow(r) ==
    CASE r = "r1" -> [code |-> <<"A">>, display_name |-> <<"x">>, name |-> <<"n">>,
                      start_date |-> <<"1">>, end_date |-> <<"2">>, kind |-> "Stock",
                      parent |-> <<>>]
      [] r = "r2" -> [code |-> <<"B">>, display_name |-> <<"y">>, name |-> <<"m">>,
                      start_date |-> <<"1">>, end_date |-> <<"2">>, kind |-> "Fund",
                      parent |-> <<>>]
      [] r = "r3p" -> [code |-> <<"C">>, display_name |-> <<"z">>, name |-> <<"k">>,
                       start_date |-> <<"1">>, end_date |-> <<"2">>, kind |-> "ETF",
                       parent |-> << <<"P">> >>]

DropTrailingLF(s) ==
    IF s # <<>> /\ s[Len(s)] = LF THEN SubSeq(s, 1, Len(s) - 1) ELSE s

\* no line feed of the body directly follows a carriage return
NoCRLF(body) == \A i \in 1..(Len(body) - 1) : ~(body[i] = CR /\ body[i + 1] = LF)

\* an optional sign and then one digit or more
IsIntegerText(s) ==
    LET d == IF s # <<>> /\ s[1] \in {"+", "-"} THEN Tail(s) ELSE s
    IN  d # <<>> /\ \A i \in 1..Len(d) : IsDigit(d[i])

----------------------------------------------------------------------------
(* Claims on the body consumers, under SpecDecode *)

\* C1: a tabular response whose first header cell starts with "error" gives
\* ServerError and no data row is decoded, whatever rows follow the header.
C1_SentinelHeaderIsServerError ==
    (format = "csv" /\ SentinelHeader(response.body))
        => (output.kind = "Server" /\ output.attempted = 0)

C1_Witness ==
    /\ format = "csv"
    /\ response.hdr = "error_comma"
    /\ response.rows = <<"r1", "badkind">>
    /\ output.kind = "Server"

\* C2: a tabular response with a well-formed header and N >= 0 valid rows
\* gives exactly the N decoded rows, the i-th being the i-th row of the body.
C2_RowsInFileOrder ==
    (/\ format = "csv"
     /\ response.hdr \in {"security", "security_parent"}
     /\ \A i \in 1..Len(response.rows) : response.rows[i] \in ValidRows(response.hdr))
        => (/\ output.ok
            /\ output.val = [i \in 1..Len(response.rows) |-> ExpectedRow(response.rows[i])])

C2_Witness ==
    /\ format = "csv"
    /\ response.hdr = "security"
    /\ response.rows = <<"r2", "r1">>
    /\ output.ok
    /\ Len(output.val) = 2

\* C7 as claimed: for every line-list body, joining the returned lines with
\* line feeds gives the body back, up to one trailing line feed.
C7_RoundTripAnyBody ==
    format = "line"
        => (output.ok /\ Join(output.val, <<LF>>) = DropTrailingLF(response.body))

\* C7 as amended: for every line-list body in which no line feed directly
\* follows a carriage return, the lines come back in order and unchanged
\* (joining them with line feeds gives the body up to one trailing line
\* feed), and the empty body gives the empty sequence.
C7_RoundTripWithoutCRLF ==
    (format = "line" /\ NoCRLF(response.body))
        => (/\ output.ok
            /\ Join(output.val, <<LF>>) = DropTrailingLF(response.body)
            /\ \A i \in 1..Len(output.val) : FirstIn(output.val[i], {LF}) = 0
            /\ (output.val = <<>>) <=> (response.body = <<>>))

C7_Witness ==
    /\ format = "line"
    /\ response.body = <<"a", LF, LF>>
    /\ output.val = << <<"a">>, <<>> >>

\* C8: for the scalar strategy with an integer type, the body 42 gives 42 and
\* a body that is no integer text (the empty body too) gives an error that is
\* not ServerError.
C8_ScalarParseFailureIsDecodeError ==
    format = "single"
        => (/\ response.body = <<"4", "2">> => (output.ok /\ output.val = 42)
            /\ ~IsIntegerText(response.body) => (~output.ok /\ output.kind # "Server"))

\* C9: a line-list body that starts with "error" is returned as data, never
\* as ServerError; a one-line error is a one-element sequence.
C9_LineListSentinelIsData ==
    (format = "line" /\ StartsWith(response.body, Sentinel))
        => (/\ output.ok
            /\ output.kind # "Server"
            /\ Len(output.val) >= 1
            /\ StartsWith(output.val[1], Sentinel)
            /\ FirstIn(response.body, {LF}) = 0 => output.val = <<response.body>>)

C9_Witness ==
    /\ format = "line"
    /\ response.body = Sentinel \o <<":", "a">>
    /\ output.ok
    /\ output.val = <<response.body>>

\* C10: a ServerError reported for a sentinel response carries the sentinel
\* text in full; for a tabular response that is the whole first line.
C10_ServerErrorCarriesWholeLine ==
    (format = "csv" /\ SentinelHeader(response.body) /\ output.kind = "Server")
        => output.msg = FirstLine(response.body)

\* C11: the scalar and the JSON strategy test the sentinel before they
\* decode: a body that starts with "error" gives ServerError carrying that
\* body, never the error of the integer parser or of the JSON parser.
C11_SentinelBeforeScalarAndJsonDecoding ==
    (format \in {"single", "json"} /\ StartsWith(response.body, Sentinel))
        => (output.kind = "Server" /\ output.msg = response.body)

\* the body holds no header: nothing but line ends
NoHeader(body) == \A i \in 1..Len(body) : body[i] \in {LF, CR}

EmptyBodyClaimed ==
    <<"e", "m", "p", "t", "y", " ", "r", "e", "s", "p", "o", "n", "s", "e", " ",
      "b", "o", "d", "y">>

\* C17 as claimed: a tabular response without header (the empty body) gives
\* ServerError with the message "empty response body".
C17_EmptyHeaderMessage ==
    (format = "csv" /\ NoHeader(response.body))
        => (output.kind = "Server" /\ output.msg = EmptyBodyClaimed)

\* C17 as amended: a tabular response without header (the empty body, or
\* line ends only) gives ServerError with the message "empty response body
\* returned", never an empty sequence of rows.
C17_EmptyHeaderIsServerError ==
    (format = "csv" /\ NoHeader(response.body))
        => (/\ ~output.ok
            /\ output.kind = "Server"
            /\ output.msg = EmptyBodyClaimed \o <<" ", "r", "e", "t", "u", "r", "n", "e", "d">>
            /\ output.attempted = 0)

C17_Witness ==
    /\ format = "csv"
    /\ response.body = <<CR, LF, LF>>
    /\ output.kind = "Server"

----------------------------------------------------------------------------
(* Claims on the envelope builders, under SpecEnvelope *)

\* the value the entries of a JSON object text give for a key
EntryValue(entries, key) ==
    entries[CHOOSE i \in 1..Len(entries) : entries[i][1] = key][2]

\* the keys of a JSON object text, in order
EntryKeys(entries) == [i \in 1..Len(entries) |-> entries[i][1]]

\* the values the entries of a JSON object text give for a key
ValuesOf(entries, key) == {i \in 1..Len(entries) : entries[i][1] = key}

\* the method name the builder that ran binds to the command
BoundMethod ==
    IF builder = "derived" THEN request_method_name(command.type)
    ELSE HasMethod_method(command.type)

\* C4: the envelope is one flat JSON object whose keys are the command's
\* fields plus method and token, each key once, with method = m and
\* token = t also when a command field is named method or token; for both
\* builders and every command that is a struct with fields.
C4_EnvelopeMethodTokenPrecedence ==
    (builder # "none" /\ command.type # "UnitCommand")
        => (/\ envelope.ok
            /\ {envelope.val[i][1] : i \in 1..Len(envelope.val)}
                   = {command.fields[i][1] : i \in 1..Len(command.fields)}
                         \cup {"method", "token"}
            /\ \A i \in 1..Len(envelope.val) :
                   /\ ValuesOf(envelope.val, envelope.val[i][1]) = {i}
                   /\ envelope.val[i][1] = "method" => envelope.val[i][2] = BoundMethod
                   /\ envelope.val[i][1] = "token" => envelope.val[i][2] = token
                   /\ envelope.val[i][1] \notin {"method", "token"}
                          => <<envelope.val[i][1], envelope.val[i][2]>>
                                 \in {command.fields[j] : j \in 1..Len(command.fields)})

----------------------------------------------------------------------------
(* Claims on the async client, under Spec *)

\* the calls that have read their token snapshot
Snapshotted == {c \in Callers : calls[c].pc \in {"cloned", "sent", "done"}}

\* the calls whose request has been posted
Posted == {c \in Callers : calls[c].pc \in {"sent", "done"}}

\* the value of the token key of a posted request body
TokenSent(c) == calls[c].body[CHOOSE i \in 1..Len(calls[c].body) :
                                  calls[c].body[i][1] = "token"][2]

\* the outcome a response text should have for a command type
ExpectedKind(type, text) ==
    CASE type = "GetAllSecurities" /\ text = Render("security", <<"r1">>, <<LF>>, TRUE) -> "Ok"
      [] type = "GetAllSecurities" /\ text = HeaderText("error_plain") -> "Server"
      [] type = "GetAllSecurities" /\ text = <<"4", "2">> -> "Ok"
      [] type = "GetQueryCount" /\ text = Render("security", <<"r1">>, <<LF>>, TRUE) -> "Decode"
      [] type = "GetQueryCount" /\ text = HeaderText("error_plain") -> "Decode"
      [] type = "GetQueryCount" /\ text = <<"4", "2">> -> "Ok"

\* C3: with_credential exchanges the token before any client exists; when
\* the exchange is answered with a body starting with "error" it returns
\* ServerError, no client is made and no execute is ever issued.
C3_FailedExchangeMakesNoClient ==
    /\ ctor.pc # "done" => (inner = <<>> /\ \A c \in Callers : calls[c] = IdleCall)
    /\ (ctor.pc \in {"done", "failed"} /\ StartsWith(ctor.response, Sentinel))
           => (ctor.pc = "failed" /\ ctor.result.kind = "Server")

C3_Witness ==
    /\ ctor.pc = "failed"
    /\ ctor.response = HeaderText("error_plain")
    /\ ctor.result.kind = "Server"
    /\ inner = <<>>

\* C5: concurrent execute calls on one client with one token all send that
\* token, and the outcome of each call is decided by its own response alone.
C5_ConcurrentCallsIndependent ==
    /\ \A c \in Posted : inner # <<>> /\ TokenSent(c) = inner[1].token
    /\ \A c \in Callers :
           calls[c].pc = "done"
               => IF calls[c].output = TransportError
                  THEN calls[c].response = <<>>
                  ELSE /\ calls[c].output.kind
                              = ExpectedKind(calls[c].command.type, calls[c].response)
                       /\ calls[c].output
                              = consume_body(calls[c].command.type, calls[c].response)

C5_Witness ==
    /\ \A c \in Callers : calls[c].pc = "done"
    /\ calls[1].output.ok
    /\ calls[2].output.kind = "Server"
    /\ TokenSent(1) = TokenSent(2)

\* C6: the client holds one token, and every snapshot a call reads holds the
\* token a finished exchange installed (the whole response text), never the
\* empty placeholder of a construction still under way.
C6_SnapshotIsInstalledToken ==
    /\ Len(inner) <= 1
    /\ inner # <<>> => (ctor.pc = "done" /\ inner[1].token = ctor.response)
    /\ \A c \in Snapshotted :
           /\ ctor.pc = "done"
           /\ calls[c].shared_cli.token = ctor.response
           /\ ~StartsWith(calls[c].shared_cli.token, Sentinel)

C6_Witness ==
    /\ \E c \in Callers : calls[c].pc = "cloned" /\ calls[c].shared_cli.token = T_abc
    /\ \E c \in Callers : calls[c].pc = "locked"

CredentialValues ==
    IF inner = <<>> \/ inner[1].credential = <<>> THEN {}
    ELSE {inner[1].credential[1].mob, inner[1].credential[1].pwd}

\* C19: the credential goes on the wire in the token request alone: no
\* envelope posted by execute has a key mob or pwd or a value that is the
\* mobile or the password, every entry of it being the token, the method or
\* a field of the command; and no call holds the credential outside the
\* SharedClient it has a reference to.  (The server is taken not to hand the
\* credential back as a token.)
C19_CredentialOnlyInTokenRequests ==
    /\ ctor.pc # "idle"
           => (/\ EntryValue(ctor.request, "mob") = ctor.shared_cli.credential[1].mob
               /\ EntryValue(ctor.request, "pwd") = ctor.shared_cli.credential[1].pwd)
    /\ \A c \in Posted :
           /\ CredentialValues # {}
           /\ \A i \in 1..Len(calls[c].body) :
                  /\ calls[c].body[i][1] \notin {"mob", "pwd"}
                  /\ calls[c].body[i][2] \notin CredentialValues
                  /\ \/ calls[c].body[i] = <<"token", calls[c].shared_cli.token>>
                     \/ calls[c].body[i] = <<"method", HasMethod_method(calls[c].command.type)>>
                     \/ \E j \in 1..Len(calls[c].command.fields) :
                            calls[c].body[i] = calls[c].command.fields[j]
           /\ calls[c].shared_cli = inner[1]

C19_Witness ==
    /\ ctor.pc = "done"
    /\ EntryValue(ctor.request, "pwd") = <<"p">>
    /\ inner[1].credential = <<ClientCredential(<<"1">>, <<"p">>)>>
    /\ \A c \in Callers : calls[c].pc = "sent" /\ Len(calls[c].body) >= 2

----------------------------------------------------------------------------
(* Claims on the blocking client, under SpecBlocking *)

\* the format a command type declares
DeclaredFormat(type) ==
    CASE type = "GetAllSecurities" -> "csv"
      [] type = "GetIndexStocks" -> "line"
      [] type = "GetQueryCount" -> "single"
      [] type = "GetFundInfo" -> "json"
      [] OTHER -> "none"

\* the execute in progress has received a response
Answered == bcall.op = "execute" /\ bcall.pc = "done" /\ bcall.response # <<>>

\* C15: an execute answered with the sentinel of an invalid token returns
\* ServerError (for every format but the line list, whose decoder returns
\* the text as data), posts nothing more and exchanges no token: the client
\* holds the token it held, and the execute after it sends that token again.
C15_NoReauthOnSentinelResponse ==
    /\ (Answered /\ StartsWith(bcall.response, Sentinel)
            /\ DeclaredFormat(bcall.command.type) # "line")
           => (/\ bcall.output.kind = "Server"
               /\ bcall.posts = 1
               /\ wire[Len(wire)] = [by |-> "execute", body |-> bcall.request]
               /\ bcli[1].token = EntryValue(bcall.request, "token"))
    /\ (bcall.op = "execute" /\ bcall.posts = 1 /\ bcall.prev # <<>>
            /\ bcall.prev[1].posts = 1 /\ StartsWith(bcall.prev[1].response, Sentinel))
           => (/\ EntryValue(bcall.request, "token")
                      = EntryValue(bcall.prev[1].request, "token")
               /\ wire[Len(wire) - 1] = [by |-> "execute", body |-> bcall.prev[1].request])

\* C18: the envelope of a command that is a unit struct cannot be built:
\* execute returns the builder's error (Error::Client, unexpected json
\* value: null), with no request body and nothing posted.
C18_UnitStructFailsBeforeAnyRequest ==
    /\ (bcall.op = "execute" /\ bcall.command = UnitCommand)
           => (/\ bcall.pc = "done"
               /\ ~bcall.output.ok
               /\ bcall.output.kind = "Client"
               /\ bcall.output.msg = UnexpectedJsonValue \o <<"n", "u", "l", "l">>
               /\ bcall.request = <<>>
               /\ bcall.posts = 0
               /\ bcall.response = <<>>)
    /\ \A i \in 1..Len(wire) :
           wire[i].by = "execute"
               => (/\ EntryValue(wire[i].body, "method") # M_custom
                   /\ "token" \in {wire[i].body[k][1] : k \in 1..Len(wire[i].body)})

C18_Witness ==
    /\ bcall.op = "execute"
    /\ bcall.command = UnitCommand
    /\ bcall.n = 2
    /\ bcall.output.kind = "Client"
    /\ Len(wire) = 1

\* C20: a command type has one response format out of csv, line, single and
\* json, and every execute of the type decodes the response with the
\* consumer of that format, whatever the fields of the command, the token
\* and the response are.
C20_FormatBoundPerCommandType ==
    Answered
        => (/\ response_format(bcall.command.type) \in {"csv", "line", "single", "json"}
            /\ response_format(bcall.command.type) = DeclaredFormat(bcall.command.type)
            /\ bcall.output
                   = CASE DeclaredFormat(bcall.command.type) = "csv" -> consume_csv(bcall.response)
                       [] DeclaredFormat(bcall.command.type) = "line" -> consume_line(bcall.response)
                       [] DeclaredFormat(bcall.command.type) = "single"
                              -> consume_single(bcall.response)
                       [] DeclaredFormat(bcall.command.type) = "json"
                              -> consume_json(bcall.response))

C20_Witness ==
    /\ Answered
    /\ bcall.command = GetIndexStocks(T_abc, T_2020)
    /\ bcall.response = <<"4", "2">>
    /\ bcall.output = Ok(<< <<"4", "2">> >>)
    /\ bcall.prev # <<>>
    /\ bcall.prev[1].kind = "Ok"
    /\ bcall.prev[1].response = <<"4", "2">>
    /\ EntryValue(bcall.prev[1].request, "method") = M_run_query

----------------------------------------------------------------------------
(* Claims on the token exchange, under SpecExchange *)

\* C12: a client that holds a token and no credential cannot refresh: every
\* refresh_token on it returns the no-credential error (Error::Client with
\* its own message, not the transport error), posts nothing and leaves the
\* token as it was.
C12_RefreshWithoutCredentialFails ==
    (exchange.fn = "refresh_token" /\ exchange.self0.credential = <<>>)
        => (/\ exchange.pc = "refused"
            /\ exchange.result = Err("Client", NoCredentialMessage)
            /\ exchange.result # TransportError
            /\ exchange.posts = 0
            /\ exchange.request = <<>>
            /\ exchange.self = exchange.self0)

C12_Witness ==
    /\ exchange.fn = "refresh_token"
    /\ exchange.self0 = SharedClient(<<>>, T_abc)
    /\ exchange.pc = "refused"
    /\ exchange.result.kind = "Client"
    /\ exchange.self.token = T_abc

\* C13: a token exchange answered with a body that does not start with
\* "error" installs exactly that body as the token, in place of the token
\* held before and in the one step that ends the exchange; a body that
\* starts with "error" fails the exchange with ServerError and the token
\* held before stays.
C13_ExchangeInstallsResponseBody ==
    /\ exchange.pc # "done" => exchange.self = exchange.self0
    /\ exchange.pc = "done"
           => IF StartsWith(exchange.response, Sentinel)
              THEN /\ exchange.result = Err("Server", exchange.response)
                   /\ exchange.self = exchange.self0
              ELSE IF exchange.fn = "get_token"
              THEN exchange.result = Ok(exchange.response)
              ELSE /\ exchange.result.ok
                   /\ exchange.self.token = exchange.response
                   /\ exchange.self.credential = exchange.self0.credential

C13_Witness ==
    /\ exchange.fn = "refresh_token"
    /\ exchange.pc = "done"
    /\ exchange.self0.token = T_abc
    /\ exchange.response = <<"x", "y">>
    /\ exchange.self.token = <<"x", "y">>

\* C16: every token request is a JSON object with the keys method, mob and
\* pwd and no other (no token): method is get_current_token for the reusing
\* variant and get_token for the other, mob and pwd are the credential, and
\* construction from a credential asks for get_current_token.
C16_TokenRequestKeys ==
    exchange.posts >= 1
        => (/\ EntryKeys(exchange.request) = <<"method", "mob", "pwd">>
            /\ "token" \notin {exchange.request[i][1] : i \in 1..Len(exchange.request)}
            /\ EntryValue(exchange.request, "method")
                   = IF exchange.fn = "refresh_token" \/ exchange.reuse
                     THEN M_get_current_token ELSE M_get_token
            /\ exchange.via = "with_credential"
                   => EntryValue(exchange.request, "method") = M_get_current_token
            /\ EntryValue(exchange.request, "mob")
                   = IF exchange.fn = "refresh_token" THEN exchange.self0.credential[1].mob
                     ELSE exchange.mob
            /\ EntryValue(exchange.request, "pwd")
                   = IF exchange.fn = "refresh_token" THEN exchange.self0.credential[1].pwd
                     ELSE exchange.pwd)

C16_Witness ==
    /\ exchange.fn = "get_token"
    /\ ~exchange.reuse
    /\ exchange.posts = 1
    /\ EntryValue(exchange.request, "method") = M_get_token
    /\ EntryValue(exchange.request, "pwd") = <<"q">>

----------------------------------------------------------------------------
(* Claims on SecurityKind, under SpecKind *)

\* the wire name of each variant, as tests::test_security_kind_rename lists them
WireNames ==
    << <<"Stock", <<"s", "t", "o", "c", "k">>>>,
       <<"Fund", <<"f", "u", "n", "d">>>>,
       <<"Index", <<"i", "n", "d", "e", "x">>>>,
       <<"Futures", <<"f", "u", "t", "u", "r", "e", "s">>>>,
       <<"ETF", <<"e", "t", "f">>>>,
       <<"LOF", <<"l", "o", "f">>>>,
       <<"FJA", <<"f", "j", "a">>>>,
       <<"FJB", <<"f", "j", "b">>>>,
       <<"QDIIFund", <<"Q", "D", "I", "I", "_", "f", "u", "n", "d">>>>,
       <<"OpenFund", <<"o", "p", "e", "n", "_", "f", "u", "n", "d">>>>,
       <<"BondFund", <<"b", "o", "n", "d", "_", "f", "u", "n", "d">>>>,
       <<"StockFund", <<"s", "t", "o", "c", "k", "_", "f", "u", "n", "d">>>>,
       <<"MoneyMarketFund", <<"m", "o", "n", "e", "y", "_", "m", "a", "r", "k", "e", "t", "_", "f", "u", "n", "d">>>>,
       <<"MixtureFund", <<"m", "i", "x", "t", "u", "r", "e", "_", "f", "u", "n", "d">>>>,
       <<"Options", <<"o", "p", "t", "i", "o", "n", "s">>>> >>

WireName(variant) ==
    WireNames[CHOOSE i \in 1..Len(WireNames) : WireNames[i][1] = variant][2]

\* C21: each of the 15 variants is written as its wire name, and the wire
\* name is read back as the variant; no two variants have one wire name, so
\* a text that is read as a variant is written back as itself.
C21_SecurityKindRoundTrip ==
    /\ Cardinality(SecurityKindVariants) = 15
    /\ SecurityKindVariants = {WireNames[i][1] : i \in 1..Len(WireNames)}
    /\ \A v, w \in SecurityKindVariants :
           v # w => SerializeSecurityKind(v) # SerializeSecurityKind(w)
    /\ (kind.from = "value" /\ kind.pc \in {"written", "done"})
           => kind.text = <<DQ>> \o WireName(kind.variant) \o <<DQ>>
    /\ (kind.from = "value" /\ kind.pc = "done") => kind.back = Ok(kind.variant)
    /\ (kind.from = "text" /\ kind.pc \in {"read", "done"} /\ kind.back.ok)
           => (/\ kind.back.val \in SecurityKindVariants
               /\ StartsWith(kind.input, <<DQ>> \o WireName(kind.back.val) \o <<DQ>>))
    /\ (kind.from = "text" /\ kind.pc = "done")
           => StartsWith(kind.input, kind.text)

C21_Witness ==
    /\ kind.from = "value"
    /\ kind.pc = "done"
    /\ kind.variant = "QDIIFund"
    /\ kind.text = <<DQ, "Q", "D", "I", "I", "_", "f", "u", "n", "d", DQ>>
    /\ kind.back = Ok("QDIIFund")

----------------------------------------------------------------------------
(* Claims on the token exchange and its cancellation, under SpecExchange *)

\* C22: a refresh_token that is refused, that fails in the transport, that
\* is answered with the sentinel or that is dropped at either await leaves
\* the token and the credential of the SharedClient as they were when it was
\* called; the token is another one only once the call has returned Ok, and
\* then it is the response text.
C22_FailedRefreshLeavesClientUnchanged ==
    exchange.fn = "refresh_token"
        => (/\ exchange.self.credential = exchange.self0.credential
            /\ exchange.pc \in {"refused", "sent", "reading", "aborted",
                                "cancelled at send", "cancelled at text"}
                   => exchange.self = exchange.self0
            /\ (exchange.pc = "done" /\ StartsWith(exchange.response, Sentinel))
                   => (exchange.self = exchange.self0 /\ ~exchange.result.ok)
            /\ exchange.self.token # exchange.self0.token
                   => (/\ exchange.pc = "done"
                       /\ exchange.result = Ok(<<>>)
                       /\ exchange.self.token = exchange.response))

C22_Witness ==
    /\ exchange.fn = "refresh_token"
    /\ exchange.pc = "cancelled at text"
    /\ exchange.posts = 1
    /\ exchange.self0.token = T_abc
    /\ exchange.self = exchange.self0

----------------------------------------------------------------------------
(* Claims on the lock of the async client, under Spec *)

\* C23: the lock of inner is held by a call only between its lock().await
\* and the end of the block that clones the snapshot: the holder has built
\* no request and awaits no response, a call that has serialized or sent
\* its request does not hold it, and the token request of with_credential
\* is made before the lock exists.
C23_NoLockAcrossNetworkIO ==
    /\ mutex # 0
           => (/\ mutex \in Callers
               /\ calls[mutex].pc = "locked"
               /\ calls[mutex].body = <<>>
               /\ calls[mutex].posts = 0)
    /\ \A c \in Callers : calls[c].pc \in {"cloned", "sent", "done"} => mutex # c
    /\ ctor.pc = "exchanging" => (mutex = 0 /\ inner = <<>>)

C23_Witness ==
    \E c, d \in Callers :
        /\ calls[c].pc = "sent"
        /\ calls[c].posts = 1
        /\ mutex = d
        /\ d # c
        /\ calls[d].pc = "locked"

----------------------------------------------------------------------------
(* Claims on the progress of the async client, under FairSpec *)

----------------------------------------------------------------------------
(* Further claims on the body consumers, under SpecDecode *)

\* the first row of the response that is not valid under its header, 0 if
\* every row is
FirstMalformed ==
    LET bad == {i \in 1..Len(response.rows) : response.rows[i] \notin ValidRows(response.hdr)}
    IN  IF bad = {} THEN 0 ELSE CHOOSE i \in bad : \A j \in bad : i <= j

\* C25: under a valid header, a row that does not deserialize (a row with
\* too few or too many fields, a type that names no SecurityKind) makes the
\* tabular decoder return Error::Csv, raised at the first such row, and no
\* row at all, whatever rows were read before it.
C25_TabularAllOrNothing ==
    (format = "csv" /\ response.hdr \in {"security", "security_parent"} /\ FirstMalformed > 0)
        => (/\ ~output.ok
            /\ output.kind = "Csv"
            /\ output.val = <<>>
            /\ output.attempted = FirstMalformed)

C25_Witness ==
    /\ format = "csv"
    /\ response.hdr = "security"
    /\ response.rows = <<"r1", "badkind">>
    /\ output.kind = "Csv"
    /\ output.attempted = 2

----------------------------------------------------------------------------
(* Claims on the token of a constructed client, under Spec *)

\* C26: once with_credential has returned the client, no step changes its
\* SharedClient or starts another token exchange, whatever the calls on its
\* clones do and however they end; every request posted by execute carries
\* the token the construction obtained.
C26_TokenFixedAfterConstruction ==
    /\ [][inner # <<>> => (inner' = inner /\ ctor' = ctor)]_vars
    /\ [](\A c \in Posted :
              /\ ctor.pc = "done"
              /\ ctor.result.ok
              /\ TokenSent(c) = ctor.response
              /\ TokenSent(c) = inner[1].token)

C26_Witness ==
    \E c, d \in Callers :
        /\ c # d
        /\ calls[c].pc = "sent"
        /\ calls[c].n = 1
        /\ TokenSent(c) = T_abc
        /\ calls[d].pc = "done"
        /\ calls[d].n = 1
        /\ calls[d].output.kind = "Server"

----------------------------------------------------------------------------
(* Claims on the status of a response, under SpecBlocking *)

\* C27: the status of a response has no part in the outcome.  An execute
\* answered with body b returns what the command's consumer makes of b, and
\* a token request answered with b makes the client of the token b, or fails
\* with ServerError carrying b, as a response of status 200 with body b
\* does, whatever the status.
C27_StatusDoesNotInfluenceOutcome ==
    /\ (bcall.op = "execute" /\ bcall.pc = "done" /\ bcall.status # 0)
           => bcall.output =
                  (CASE DeclaredFormat(bcall.command.type) = "csv" -> consume_csv(bcall.response)
                     [] DeclaredFormat(bcall.command.type) = "line" -> consume_line(bcall.response)
                     [] DeclaredFormat(bcall.command.type) = "single" ->
                            consume_single(bcall.response)
                     [] DeclaredFormat(bcall.command.type) = "json" -> consume_json(bcall.response))
    /\ (bcall.op = "with_credential" /\ bcall.status # 0)
           => IF StartsWith(bcall.response, Sentinel)
              THEN bcall.pc = "failed" /\ bcall.output = Err("Server", bcall.response)
                       /\ bcli = <<>>
              ELSE bcall.pc = "done" /\ bcall.output = Ok(<<>>)
                       /\ bcli = <<[token |-> bcall.response]>>
    /\ bcall.prev # <<>> =>
           (bcall.prev[1].posts = 1 /\ bcall.prev[1].response # <<>>
                => bcall.prev[1].kind # "Reqwest")

C27_Witness ==
    /\ bcall.op = "execute"
    /\ bcall.pc = "done"
    /\ bcall.status = 500
    /\ bcall.command.type = "GetAllSecurities"
    /\ bcall.output.ok
    /\ Len(bcall.output.val) = 1
    /\ wire[1].by = "get_token"
    /\ bcli = <<[token |-> T_abc]>>

----------------------------------------------------------------------------
(* Claims on the method names, under SpecEnvelope *)

\* the command types of the repository that the model has
CommandTypes == {"GetAllSecurities", "GetIndexStocks", "RunQuery", "GetQueryCount", "GetFundInfo"}

\* the method name either crate gives a command type
MethodNamesOf(type) == {request_method_name(type), HasMethod_method(type)}

\* C28: the method an envelope carries is the name of its command type alone:
\* no other command type is given that name by either crate; the envelope of
\* GetQueryCount carries get_query_count and that of RunQuery run_query,
\* whichever builder made it.
C28_MethodNamesInjective ==
    (builder # "none" /\ envelope.ok /\ command.type \in CommandTypes)
        => (/\ \A t \in CommandTypes \ {command.type} :
                   EntryValue(envelope.val, "method") \notin MethodNamesOf(t)
            /\ command.type = "GetQueryCount"
                   => EntryValue(envelope.val, "method") = M_get_query_count
            /\ command.type = "RunQuery"
                   => EntryValue(envelope.val, "method") = M_run_query)

----------------------------------------------------------------------------
(* Claims on the scalar decoder and whitespace, under SpecDecode *)

\* C30: the scalar decoder parses the whole body as it is: an integer text
\* with whitespace before or after it is a parse failure, and a body that
\* is decoded is an integer text from its first character to its last.
C30_ScalarDoesNotTrim ==
    format = "single"
        => (/\ (Trim(response.body) # response.body /\ IsIntegerText(Trim(response.body)))
                   => (~output.ok /\ output.val = <<>>)
            /\ output.ok
                   => (IsIntegerText(response.body) /\ Trim(response.body) = response.body))

C30_Witness ==
    /\ format = "single"
    /\ response.body = <<"4", "2", LF>>
    /\ ~output.ok
    /\ output.msg = <<"invalid digit found in string">>

----------------------------------------------------------------------------
(* Claims on the stored token, under Spec *)

\* C29: a token request answered with a body that does not start with the
\* sentinel (the empty body and a body ending in a line feed among them)
\* makes with_credential return a client whose token is that body, character
\* for character, and every envelope posted later carries that body as token.
C29_TokenStoredVerbatim ==
    /\ (ctor.pc \in {"done", "failed"} /\ ctor.result # TransportError
            /\ ~StartsWith(ctor.response, Sentinel))
           => (/\ ctor.pc = "done"
               /\ ctor.result = Ok(<<>>)
               /\ inner = <<SharedClient(ctor.shared_cli.credential, ctor.response)>>)
    /\ \A c \in Posted :
           /\ ValuesOf(calls[c].body, "token") # {}
           /\ \A i \in ValuesOf(calls[c].body, "token") :
                  /\ calls[c].body[i][2] = ctor.response
                  /\ Len(calls[c].body[i][2]) = Len(ctor.response)

C29_Witness ==
    /\ ctor.pc = "done"
    /\ ctor.response = <<"a", "b", "c", LF>>
    /\ \E c \in Callers :
           /\ calls[c].pc = "sent"
           /\ calls[c].n = 1
           /\ TokenSent(c) = <<"a", "b", "c", LF>>

=============================================================================
